---- MODULE Spec2Model ----
(***************************************************************************)
(* Model of the numerical core of pygmi/raster/cooper.py.                  *)
(*                                                                         *)
(* Numbers.  The source computes in floating point.  The model computes    *)
(* exactly: a cell value is a fraction [n |-> numerator, d |-> denominator]*)
(* in lowest terms with d > 0, and [n |-> 0, d |-> 0] is NaN.  All arrays  *)
(* are indexed from 0 as in the source.  A 2-D array is a record           *)
(* [nr, nc, a] where a is a function on (0..nr-1) \X (0..nc-1); the shape  *)
(* is kept beside the cells because an array may have 0 rows and still     *)
(* have columns.                                                           *)
(***************************************************************************)
EXTENDS Integers, Sequences, FiniteSets, TLC

VARIABLES
    inp,    \* the arguments of the visibility2d call: the grid as the caller
            \* built it (values, mask), wsize and dh
    buf,    \* the ndarray under the caller's masked array; the local name
            \* `data` of visibility2d is bound to this same object (line 362)
    pc,     \* position of the visibility2d call
    todo,   \* elements the running piter(range(...)) has still to yield
    loc,    \* locals of visibility2d: w2, mean, vn, vs, ve, vw, vd1..vd4,
            \* vtot, vstd; and `yielded`, for every piter(...) call so far the
            \* elements it has yielded
    ret,    \* the tuple visibility2d returned (<<>> until it returns)
    ray,    \* a direct call of the two ray helpers on one window
    vert,   \* a call of vertical
    tilt,   \* a call of tilt1
    dlg,    \* a run of settings() of one of the dialogs of cooper.py
    sc,     \* the SuperClass dialog
    polyi   \* a PolygonInteractor and the events delivered to it

\* the variables outside the visibility2d call and the helper call
ext == <<vert, tilt, dlg, sc, polyi>>

\* the variables of the visibility2d call and of the helper call
vis == <<inp, buf, pc, todo, loc, ret, ray>>

vars == <<inp, buf, pc, todo, loc, ret, ray, ext>>

(***************************************************************************)
(* Bounds of the model.                                                    *)
(***************************************************************************)
MaxDim == 7        \* grids have 1..MaxDim rows and 1..MaxDim columns
MaxWsize == 5      \* window sizes 1..MaxWsize are passed to visibility2d
MaxDh == 1         \* observer heights 0..MaxDh
MaxRayW == 2       \* half-widths 1..MaxRayW of the windows given to the helpers
MaxRayVal == 2     \* cell values 0..MaxRayVal in those windows
MaxVertDim == 6    \* vertical is called on grids of 1..MaxVertDim rows and columns
MaxNpts == 8       \* sizes 1..MaxNpts are passed to vertical, or none is
MaxTiltDim == 5    \* tilt1 is called on grids of 1..MaxTiltDim rows and columns
MaxSmooth == 6     \* smoothing sizes 0..MaxSmooth are passed to tilt1
MaxBands == 2      \* indata['Raster'] of a dialog holds 1..MaxBands bands
MaxDlgDim == 3     \* the bands of a dialog have 1..MaxDlgDim rows and columns
MaxDlgParam == 2   \* the spin box of a dialog is 0..MaxDlgParam above its minimum
MaxVerts == 5      \* poly.xy of the polygon editor has at most MaxVerts entries
MaxScVerts == 4    \* poly.xy of the editor of the SuperClass dialog has at most MaxScVerts entries
MaxPresses == 3    \* button 1 is pressed in the active editor of the dialog at most MaxPresses times
MaxDrags == 1      \* a held vertex of the editor of the dialog is moved at most MaxDrags times
MaxDragRows == 2   \* a vertex is moved while the class table has at most MaxDragRows rows, and the table keeps to them afterwards
MaxChoices == 2    \* the user chooses among the first MaxChoices items of combo_class
MaxRows == 3       \* Add Polygon is pressed while the class table has fewer rows

(***************************************************************************)
(* Exact arithmetic standing for the source's floats.                      *)
(***************************************************************************)
Abs(x) == IF x < 0 THEN -x ELSE x

Max(a, b) == IF a >= b THEN a ELSE b

Min(a, b) == IF a <= b THEN a ELSE b

RECURSIVE GCD(_, _)
GCD(a, b) == IF b = 0 THEN a ELSE GCD(b, a % b)

NaN == [n |-> 0, d |-> 0]

RNorm(n, d) ==
    IF d = 0 THEN NaN
    ELSE LET g == GCD(Abs(n), Abs(d))
             s == IF d < 0 THEN -1 ELSE 1
         IN  [n |-> (s * n) \div g, d |-> (s * d) \div g]

RInt(k) == [n |-> k, d |-> 1]

IsNaN(x) == x.d = 0

RAdd(x, y) == IF IsNaN(x) \/ IsNaN(y) THEN NaN
              ELSE RNorm(x.n * y.d + y.n * x.d, x.d * y.d)

RSub(x, y) == IF IsNaN(x) \/ IsNaN(y) THEN NaN
              ELSE RNorm(x.n * y.d - y.n * x.d, x.d * y.d)

RDivInt(x, k) == IF IsNaN(x) THEN NaN ELSE RNorm(x.n, x.d * k)

\* x >= y as IEEE compares: false as soon as one side is NaN
RGe(x, y) == ~IsNaN(x) /\ ~IsNaN(y) /\ x.n * y.d >= y.n * x.d

(***************************************************************************)
(* Python range and slice.                                                 *)
(***************************************************************************)
\* range(lo, hi) as the sequence of its elements
PyRange(lo, hi) == [k \in 1..Max(0, hi - lo) |-> lo + k - 1]

\* a start or stop of a slice of an axis of length n: negative counts from the
\* end, then clipped to 0..n
PyIndex(idx, n) == LET p == IF idx < 0 THEN idx + n ELSE idx
                   IN  Max(0, Min(p, n))

Cells(nr, nc) == (0..(nr - 1)) \X (0..(nc - 1))

\* Slice2 with the border kept: the array is returned untrimmed
Slice2_untrimmed(A, r0, r1, c0, c1) == A

\* A[r0:r1, c0:c1]
Slice2(A, r0, r1, c0, c1) ==
    LET rlo == PyIndex(r0, A.nr)
        rhi == PyIndex(r1, A.nr)
        clo == PyIndex(c0, A.nc)
        chi == PyIndex(c1, A.nc)
        n == Max(0, rhi - rlo)
        m == Max(0, chi - clo)
    IN  [nr |-> n, nc |-> m,
         a |-> [c \in Cells(n, m) |-> A.a[<<rlo + c[1], clo + c[2]>>]]]

\* np.zeros([nr, nc])
Zeros(nr, nc) == [nr |-> nr, nc |-> nc, a |-> [c \in Cells(nr, nc) |-> 0]]

(***************************************************************************)
(* The ray helpers.  dat is a window as a function on 0..len-1.            *)
(***************************************************************************)
\* the loop of __visible1: for i in range(cpn+2, nr), over the elements `is`
\* still to visit, carrying num and thetamax
RECURSIVE visible1_loop(_, _, _, _, _, _)
visible1_loop(dat, cpn, dh, is, num, thetamax) ==
    IF is = <<>> THEN num
    ELSE LET i == Head(is)
             theta == RDivInt(RSub(RSub(dat[i], dat[cpn]), dh), i - cpn)
         IN  IF RGe(theta, thetamax)
             THEN visible1_loop(dat, cpn, dh, Tail(is), num + 1, theta)
             ELSE visible1_loop(dat, cpn, dh, Tail(is), num, thetamax)

\* visible1 with the comparison theta > thetamax: ties are rejected
RECURSIVE visible1_loop_strict(_, _, _, _, _, _)
visible1_loop_strict(dat, cpn, dh, is, num, thetamax) ==
    IF is = <<>> THEN num
    ELSE LET i == Head(is)
             theta == RDivInt(RSub(RSub(dat[i], dat[cpn]), dh), i - cpn)
         IN  IF RGe(theta, thetamax) /\ theta # thetamax
             THEN visible1_loop_strict(dat, cpn, dh, Tail(is), num + 1, theta)
             ELSE visible1_loop_strict(dat, cpn, dh, Tail(is), num, thetamax)

visible1_strict(dat, nr, cp, dh) ==
    IF cp < nr - 1 /\ DOMAIN dat # {}
    THEN LET cpn == cp - 1
             thetamax == RSub(RSub(dat[cpn + 1], dat[cpn]), dh)
         IN  visible1_loop_strict(dat, cpn, dh, PyRange(cpn + 2, nr), 2, thetamax)
    ELSE 1

\* __visible1(dat, nr, cp, dh)
visible1(dat, nr, cp, dh) ==
    IF cp < nr - 1 /\ DOMAIN dat # {}
    THEN LET cpn == cp - 1
             thetamax == RSub(RSub(dat[cpn + 1], dat[cpn]), dh)
         IN  visible1_loop(dat, cpn, dh, PyRange(cpn + 2, nr), 2, thetamax)
    ELSE 1

\* range(cpn-2, -1, -1) as the sequence of its elements
PyRangeDown(hi) == [k \in 1..Max(0, hi + 1) |-> hi - k + 1]

\* the loop of __visible2: for i in range(cpn-2, -1, -1)
RECURSIVE visible2_loop(_, _, _, _, _, _)
visible2_loop(dat, cpn, dh, is, num, thetamax) ==
    IF is = <<>> THEN num
    ELSE LET i == Head(is)
             theta == RDivInt(RSub(RSub(dat[i], dat[cpn]), dh), cpn - i)
         IN  IF RGe(theta, thetamax)
             THEN visible2_loop(dat, cpn, dh, Tail(is), num + 1, theta)
             ELSE visible2_loop(dat, cpn, dh, Tail(is), num, thetamax)

visible2_inclusive(dat, cp, dh) ==
    IF cp >= 2 /\ DOMAIN dat # {}
    THEN LET cpn == cp - 1
             thetamax == RSub(RSub(dat[cpn - 1], dat[cpn]), dh)
         IN  visible2_loop(dat, cpn, dh, PyRangeDown(cpn - 2), 1, thetamax)
    ELSE 0

\* __visible2(dat, cp, dh)
visible2(dat, cp, dh) ==
    IF cp > 2 /\ DOMAIN dat # {}
    THEN LET cpn == cp - 1
             thetamax == RSub(RSub(dat[cpn - 1], dat[cpn]), dh)
         IN  visible2_loop(dat, cpn, dh, PyRangeDown(cpn - 2), 1, thetamax)
    ELSE 0

(***************************************************************************)
(* Masked arrays.                                                          *)
(***************************************************************************)
\* data.mean() of a masked array: the mean of the cells that are not masked
RECURSIVE SumRow(_, _, _, _)
SumRow(a, mask, i, j) ==
    IF j < 0 THEN RInt(0)
    ELSE IF mask[<<i, j>>] THEN SumRow(a, mask, i, j - 1)
    ELSE RAdd(a[<<i, j>>], SumRow(a, mask, i, j - 1))

RECURSIVE SumRows(_, _, _, _)
SumRows(a, mask, i, nc) ==
    IF i < 0 THEN RInt(0)
    ELSE RAdd(SumRow(a, mask, i, nc - 1), SumRows(a, mask, i - 1, nc))

MaskedMean(A) ==
    LET cnt == Cardinality({c \in DOMAIN A.mask : ~A.mask[c]})
    IN  RDivInt(SumRows(A.a, A.mask, A.nr - 1, A.nc), cnt)

\* SetMask that never attaches the mask: every output cell stays unmasked
SetMask_unset(A, M) ==
    [nr |-> A.nr, nc |-> A.nc, a |-> A.a,
     mask |-> [c \in Cells(A.nr, A.nc) |-> FALSE]]

\* A.mask = M on a fresh np.ma.array(A): the setter writes M through the flat
\* iterator of A's mask, which repeats M cyclically and writes nothing when M
\* is empty (the mask then stays all False)
SetMask(A, M) ==
    [nr |-> A.nr, nc |-> A.nc, a |-> A.a,
     mask |-> [c \in Cells(A.nr, A.nc) |->
                 IF M.nr * M.nc = 0 THEN FALSE
                 ELSE LET k == (c[1] * A.nc + c[2]) % (M.nr * M.nc)
                      IN  M.a[<<k \div M.nc, k % M.nc>>]]]

(***************************************************************************)
(* The grids visibility2d is called on.                                    *)
(***************************************************************************)
Kinds == {"flat", "rows", "cols", "rough"}

MaskKinds == {"none", "cells", "row"}

\* the grids of the model: every kind unmasked, and four masked grids
GridKinds ==
    (Kinds \X {"none"}) \cup
    {<<"flat", "cells">>, <<"rough", "cells">>, <<"rows", "row">>, <<"rough", "row">>}

\* the value of an unmasked cell
Value(kind, i, j) ==
    CASE kind = "flat" -> 2
      [] kind = "rows" -> i
      [] kind = "cols" -> j
      [] kind = "rough" -> (i * i + 3 * j + i * j) % 4

\* the mask: no cell, scattered cells, or the whole of row 1
Masked(mkind, nr, i, j) ==
    CASE mkind = "none" -> FALSE
      [] mkind = "cells" -> (i + 2 * j) % 5 = 2
      [] mkind = "row" -> nr >= 2 /\ i = 1

\* what the array stores under a masked cell: a finite no-data number under
\* scattered cells, NaN under the masked row
Stored(kind, mkind, nr, i, j) ==
    IF ~Masked(mkind, nr, i, j) THEN RInt(Value(kind, i, j))
    ELSE IF mkind = "cells" THEN RInt(-9) ELSE NaN

Grid(kind, mkind, nr, nc) ==
    [nr |-> nr, nc |-> nc,
     a |-> [c \in Cells(nr, nc) |-> Stored(kind, mkind, nr, c[1], c[2])],
     mask |-> [c \in Cells(nr, nc) |-> Masked(mkind, nr, c[1], c[2])]]

Input(k, m, r, c, ws, h) ==
    [kind |-> k, mkind |-> m, data |-> Grid(k, m, r, c), wsize |-> ws, dh |-> h]

NoLocals == [w2 |-> 0]

RayIdle == [pc |-> "idle"]

\* no call of vertical, of tilt1, no dialog run, no SuperClass dialog, no
\* PolygonInteractor
Idle == [pc |-> "idle"]

(***************************************************************************)
(* visibility2d(data, wsize, dh, piter), one step per element that piter   *)
(* yields.                                                                 *)
(***************************************************************************)
Init ==
    /\ \E g \in GridKinds, r \in 1..MaxDim, c \in 1..MaxDim,
          ws \in 1..MaxWsize, h \in 0..MaxDh : inp = Input(g[1], g[2], r, c, ws, h)
    /\ buf = inp.data.a
    /\ pc = "call"
    /\ todo = <<>>
    /\ loc = NoLocals
    /\ ret = <<>>
    /\ ray = RayIdle
    /\ vert = Idle
    /\ tilt = Idle
    /\ dlg = Idle
    /\ sc = Idle
    /\ polyi = Idle

FillMasked_none(a, mask, mean) == a

\* data[mask] = mean
FillMasked(a, mask, mean) == [c \in DOMAIN a |-> IF mask[c] THEN mean ELSE a[c]]

\* lines 348-365: the locals, the mean fill, and the first piter(range(nc))
Enter ==
    /\ pc = "call"
    /\ LET nr == inp.data.nr
           nc == inp.data.nc
           wsize == Abs(inp.wsize)
           mask == inp.data.mask
           mean == MaskedMean([inp.data EXCEPT !.a = buf])
       IN  /\ loc' = [nr |-> nr, nc |-> nc, wsize |-> wsize,
                      w2 |-> wsize \div 2, dh |-> RInt(inp.dh),
                      vn |-> Zeros(nr, nc), vs |-> Zeros(nr, nc),
                      ve |-> Zeros(nr, nc), vw |-> Zeros(nr, nc),
                      vd1 |-> Zeros(nr, nc), vd2 |-> Zeros(nr, nc),
                      vd3 |-> Zeros(nr, nc), vd4 |-> Zeros(nr, nc),
                      vstd |-> Zeros(nr, nc), vtot |-> "unset",
                      mask |-> [nr |-> nr, nc |-> nc, a |-> mask],
                      mean |-> mean, yielded |-> << <<>> >>]
           /\ buf' = FillMasked(buf, mask, mean)
           /\ todo' = PyRange(0, nc)
    /\ pc' = "ns"
    /\ UNCHANGED <<inp, ret, ray, ext>>

\* data[i-w2:i+w2+1, j]
ColWindow(i, j) == [k \in 0..(2 * loc.w2) |-> buf[<<i - loc.w2 + k, j>>]]

\* data[i, j-w2:j+w2+1]
RowWindow(i, j) == [k \in 0..(2 * loc.w2) |-> buf[<<i, j - loc.w2 + k>>]]

\* dtmp[k] = data[i-w2+k, j-w2+k] for k in range(wsize)
Diag1Window(i, j) ==
    [k \in 0..(loc.wsize - 1) |-> buf[<<i - loc.w2 + k, j - loc.w2 + k>>]]

\* dtmp[k] = data[i+w2-k, j-w2+k] for k in range(wsize)
Diag2Window(i, j) ==
    [k \in 0..(loc.wsize - 1) |-> buf[<<i + loc.w2 - k, j - loc.w2 + k>>]]

\* the rows of `for i in range(w2, nr-w2)`
InnerRows == {i \in 0..(loc.nr - 1) : i >= loc.w2 /\ i < loc.nr - loc.w2}

\* the rows of `for i in range(nr)`
AllRows == 0..(loc.nr - 1)

\* V after V[i, j] = val[i] for every row i the function val is defined on
SetColumn(V, j, val) ==
    [V EXCEPT !.a = [c \in DOMAIN V.a |->
                       IF c[2] = j /\ c[1] \in DOMAIN val THEN val[c[1]] ELSE V.a[c]]]

\* the record of the piter calls after the running one has yielded j
Yield(ys, j) == [ys EXCEPT ![Len(ys)] = Append(ys[Len(ys)], j)]

\* lines 365-369, one column
ScanNS ==
    /\ pc = "ns" /\ todo # <<>>
    /\ LET j == Head(todo)
           n == [i \in InnerRows |->
                   visible1(ColWindow(i, j), loc.wsize, loc.w2 + 1, loc.dh)]
           s == [i \in InnerRows |-> visible2(ColWindow(i, j), loc.w2 + 1, loc.dh)]
       IN  loc' = [loc EXCEPT !.vn = SetColumn(loc.vn, j, n),
                              !.vs = SetColumn(loc.vs, j, s),
                              !.yielded = Yield(loc.yielded, j)]
    /\ todo' = Tail(todo)
    /\ UNCHANGED <<inp, buf, pc, ret, ray, ext>>

\* line 371: the first loop is exhausted, piter(range(w2, nc-w2)) starts
EndNS ==
    /\ pc = "ns" /\ todo = <<>>
    /\ pc' = "ew"
    /\ todo' = PyRange(loc.w2, loc.nc - loc.w2)
    /\ loc' = [loc EXCEPT !.yielded = Append(loc.yielded, <<>>)]
    /\ UNCHANGED <<inp, buf, ret, ray, ext>>

\* lines 371-375, one column
ScanEW ==
    /\ pc = "ew" /\ todo # <<>>
    /\ LET j == Head(todo)
           e == [i \in AllRows |->
                   visible1(RowWindow(i, j), loc.wsize, loc.w2 + 1, loc.dh)]
           w == [i \in AllRows |-> visible2(RowWindow(i, j), loc.w2 + 1, loc.dh)]
       IN  loc' = [loc EXCEPT !.ve = SetColumn(loc.ve, j, e),
                              !.vw = SetColumn(loc.vw, j, w),
                              !.yielded = Yield(loc.yielded, j)]
    /\ todo' = Tail(todo)
    /\ UNCHANGED <<inp, buf, pc, ret, ray, ext>>

EndEW_skipdiag ==
    /\ pc = "ew" /\ todo = <<>>
    /\ pc' = "std"
    /\ todo' = PyRange(0, loc.nc)
    /\ loc' = [loc EXCEPT !.yielded = Append(loc.yielded, <<>>)]
    /\ UNCHANGED <<inp, buf, ret, ray, ext>>

\* line 377: the second loop is exhausted, piter(range(w2, nc-w2)) starts
EndEW ==
    /\ pc = "ew" /\ todo = <<>>
    /\ pc' = "diag"
    /\ todo' = PyRange(loc.w2, loc.nc - loc.w2)
    /\ loc' = [loc EXCEPT !.yielded = Append(loc.yielded, <<>>)]
    /\ UNCHANGED <<inp, buf, ret, ray, ext>>

\* lines 377-388, one column
ScanDiag ==
    /\ pc = "diag" /\ todo # <<>>
    /\ LET j == Head(todo)
           d1 == [i \in InnerRows |->
                    visible1(Diag1Window(i, j), loc.wsize, loc.w2 + 1, loc.dh)]
           d2 == [i \in InnerRows |-> visible2(Diag1Window(i, j), loc.w2 + 1, loc.dh)]
           d3 == [i \in InnerRows |->
                    visible1(Diag2Window(i, j), loc.wsize, loc.w2 + 1, loc.dh)]
           d4 == [i \in InnerRows |-> visible2(Diag2Window(i, j), loc.w2 + 1, loc.dh)]
       IN  loc' = [loc EXCEPT !.vd1 = SetColumn(loc.vd1, j, d1),
                              !.vd2 = SetColumn(loc.vd2, j, d2),
                              !.vd3 = SetColumn(loc.vd3, j, d3),
                              !.vd4 = SetColumn(loc.vd4, j, d4),
                              !.yielded = Yield(loc.yielded, j)]
    /\ todo' = Tail(todo)
    /\ UNCHANGED <<inp, buf, pc, ret, ray, ext>>

\* the eight directional counts of a cell, in the order of lines 395-397
Counts8(c) == <<loc.vn.a[c], loc.vs.a[c], loc.ve.a[c], loc.vw.a[c],
                loc.vd1.a[c], loc.vd2.a[c], loc.vd3.a[c], loc.vd4.a[c]>>

RECURSIVE SeqSum(_)
SeqSum(xs) == IF xs = <<>> THEN 0 ELSE Head(xs) + SeqSum(Tail(xs))

\* lines 390-393: the third loop is exhausted, vtot is summed and trimmed,
\* piter(range(nc)) starts
EndDiag ==
    /\ pc = "diag" /\ todo = <<>>
    /\ LET sum == [nr |-> loc.nr, nc |-> loc.nc,
                   a |-> [c \in Cells(loc.nr, loc.nc) |-> SeqSum(Counts8(c))]]
       IN  loc' = [loc EXCEPT !.vtot = Slice2(sum, loc.w2, loc.nr - loc.w2,
                                               loc.w2, loc.nc - loc.w2),
                              !.yielded = Append(loc.yielded, <<>>)]
    /\ pc' = "std"
    /\ todo' = PyRange(0, loc.nc)
    /\ UNCHANGED <<inp, buf, ret, ray, ext>>

\* np.std(xs, ddof=1), kept as its square: sum((x - mean)^2) / (len(xs) - 1)
StdSquared(xs) ==
    LET n == Len(xs)
        sq == [k \in 1..n |-> xs[k] * xs[k]]
    IN  RNorm(n * SeqSum(sq) - SeqSum(xs) * SeqSum(xs), n * (n - 1))

\* lines 393-397, one column
ScanStd ==
    /\ pc = "std" /\ todo # <<>>
    /\ LET j == Head(todo)
           sd == [i \in AllRows |-> StdSquared(Counts8(<<i, j>>))]
       IN  loc' = [loc EXCEPT !.vstd = SetColumn(loc.vstd, j, sd),
                              !.yielded = Yield(loc.yielded, j)]
    /\ todo' = Tail(todo)
    /\ UNCHANGED <<inp, buf, pc, ret, ray, ext>>

\* lines 401-406: vsumx and vsumy of a cell, each a pair <<p, q>> standing for
\* p + q*cos(45 deg); vsum is the Euclidean norm of the two
VSum(c) ==
    LET v == Counts8(c)
    IN  [x |-> <<v[3] - v[4], v[5] - v[6] + v[7] - v[8]>>,
         y |-> <<v[1] - v[2], v[5] - v[6] - v[7] + v[8]>>]

\* lines 365, 371, 377, 393: the injected piter raises, when it is called or
\* when it is asked for its next element; nothing in visibility2d catches the
\* exception, so the call ends there without a return value
PiterRaise ==
    /\ pc \in {"ns", "ew", "diag", "std"}
    /\ pc' = "raised"
    /\ todo' = <<>>
    /\ UNCHANGED <<inp, buf, loc, ret, ray, ext>>

Return_anytime ==
    /\ pc = "std"
    /\ LET w2 == loc.w2
           vstd == Slice2(loc.vstd, w2, loc.nr - w2, w2, loc.nc - w2)
           vsum0 == [nr |-> loc.nr, nc |-> loc.nc,
                     a |-> [c \in Cells(loc.nr, loc.nc) |-> VSum(c)]]
           vsum == Slice2(vsum0, w2, loc.nr - w2, w2, loc.nc - w2)
           m == Slice2(loc.mask, w2, -w2, w2, -w2)
       IN  ret' = <<SetMask(loc.vtot, m), SetMask(vstd, m), SetMask(vsum, m)>>
    /\ pc' = "done"
    /\ UNCHANGED <<inp, buf, todo, loc, ray, ext>>

\* lines 399-416: the last loop is exhausted; trim, attach the masks, return
Return ==
    /\ pc = "std" /\ todo = <<>>
    /\ LET w2 == loc.w2
           vstd == Slice2(loc.vstd, w2, loc.nr - w2, w2, loc.nc - w2)
           vsum0 == [nr |-> loc.nr, nc |-> loc.nc,
                     a |-> [c \in Cells(loc.nr, loc.nc) |-> VSum(c)]]
           vsum == Slice2(vsum0, w2, loc.nr - w2, w2, loc.nc - w2)
           m == Slice2(loc.mask, w2, -w2, w2, -w2)
       IN  ret' = <<SetMask(loc.vtot, m), SetMask(vstd, m), SetMask(vsum, m)>>
    /\ pc' = "done"
    /\ UNCHANGED <<inp, buf, todo, loc, ray, ext>>

Next ==
    \/ Enter
    \/ ScanNS
    \/ EndNS
    \/ ScanEW
    \/ EndEW
    \/ ScanDiag
    \/ EndDiag
    \/ ScanStd
    \/ PiterRaise
    \/ Return

Spec == Init /\ [][Next]_vars

(***************************************************************************)
(* The two ray helpers called directly on one window, as visibility2d      *)
(* calls them: __visible1(dat, wsize, w2+1, dh), __visible2(dat, w2+1, dh) *)
(* with wsize = 2*w2+1.                                                    *)
(***************************************************************************)
RayInput(w, d, h) ==
    [pc |-> "call", w |-> w, dh |-> RInt(h), dat |-> [k \in 0..(2 * w) |-> RInt(d[k])]]

\* dat[::-1]
Reverse(dat) ==
    LET n == Cardinality(DOMAIN dat) IN [k \in DOMAIN dat |-> dat[n - 1 - k]]

InitRay ==
    /\ \E w \in 1..MaxRayW, h \in 0..MaxDh :
          \E d \in [0..(2 * w) -> 0..MaxRayVal] : ray = RayInput(w, d, h)
    /\ inp = <<>>
    /\ buf = <<>>
    /\ pc = "idle"
    /\ todo = <<>>
    /\ loc = NoLocals
    /\ ret = <<>>
    /\ vert = Idle
    /\ tilt = Idle
    /\ dlg = Idle
    /\ sc = Idle
    /\ polyi = Idle

RayCall ==
    /\ ray.pc = "call"
    /\ ray' = [pc |-> "done", w |-> ray.w, dh |-> ray.dh, dat |-> ray.dat,
               num1 |-> visible1(ray.dat, 2 * ray.w + 1, ray.w + 1, ray.dh),
               num2 |-> visible2(ray.dat, ray.w + 1, ray.dh),
               rev1 |-> visible1(Reverse(ray.dat), 2 * ray.w + 1, ray.w + 1, ray.dh),
               rev2 |-> visible2(Reverse(ray.dat), ray.w + 1, ray.dh)]
    /\ UNCHANGED <<inp, buf, pc, todo, loc, ret, ext>>

NextRay == RayCall

SpecRay == InitRay /\ [][NextRay]_vars

(***************************************************************************)
(* Vocabulary of the properties.                                           *)
(***************************************************************************)
Returned == pc = "done"

\* the window size is one the contract allows, and the grid has interior cells
ValidCall ==
    /\ inp.wsize % 2 = 1 /\ inp.wsize >= 3
    /\ inp.data.nr > 2 * (inp.wsize \div 2)
    /\ inp.data.nc > 2 * (inp.wsize \div 2)

\* the cells that have a full window
Interior ==
    {c \in Cells(loc.nr, loc.nc) :
        /\ c[1] >= loc.w2 /\ c[1] < loc.nr - loc.w2
        /\ c[2] >= loc.w2 /\ c[2] < loc.nc - loc.w2}

(***************************************************************************)
(* vertical(data, npts=None, xint=1): the vertical derivative by FFT.      *)
(***************************************************************************)
\* no visibility2d call and no helper call is going on
VisIdle ==
    /\ inp = <<>>
    /\ buf = <<>>
    /\ pc = "idle"
    /\ todo = <<>>
    /\ loc = NoLocals
    /\ ret = <<>>
    /\ ray = RayIdle

nextpow2_strict(n) == CHOOSE m \in 0..n : 2^m > n /\ (m = 0 \/ 2^(m - 1) <= n)

\* np.ceil(np.log2(n)) for an integer n >= 1
nextpow2(n) == CHOOSE m \in 0..n : 2^m >= n /\ (m = 0 \/ 2^(m - 1) < n)

\* the values of the unmasked cells of a masked array of integers
UnmaskedValues(A) == {A.a[c].n : c \in {e \in DOMAIN A.a : ~A.mask[e]}}

\* the k-th smallest (k = 1, 2, ...) of the unmasked values, with repetitions
KthSmallest(A, k) ==
    LET le(v) == Cardinality({c \in DOMAIN A.a : ~A.mask[c] /\ A.a[c].n <= v})
        ok == {v \in UnmaskedValues(A) : le(v) >= k}
    IN  CHOOSE v \in ok : \A w \in ok : v <= w

\* np.ma.median(data): the middle unmasked value, or the mean of the two
\* middle ones
Median(A) ==
    LET n == Cardinality({c \in DOMAIN A.a : ~A.mask[c]})
    IN  IF n % 2 = 1 THEN RInt(KthSmallest(A, (n + 1) \div 2))
        ELSE RNorm(KthSmallest(A, n \div 2) + KthSmallest(A, n \div 2 + 1), 2)

\* lines 651-653: z = data - median, masked cells filled with 0
Centred(A) ==
    LET med == Median(A)
    IN  [c \in DOMAIN A.a |-> IF A.mask[c] THEN RInt(0) ELSE RSub(A.a[c], med)]

\* the index of the source cell of np.pad(..., 'edge') along one axis: the
\* cell itself inside the data, the first or the last cell in the padding
Clamp(k, n) == Max(0, Min(n - 1, k))

\* the cell of z that the padded cell p repeats
PadSource(p, nr, nc, rdiff, cdiff) ==
    <<Clamp(p[1] - rdiff, nr), Clamp(p[2] - cdiff, nc)>>

\* line 664: np.pad(z, [[rdiff, rdiff2], [cdiff, cdiff2]], 'edge')
PadEdge(z, nr, nc, rdiff, rdiff2, cdiff, cdiff2) ==
    [p \in Cells(rdiff + nr + rdiff2, cdiff + nc + cdiff2) |->
        z[PadSource(p, nr, nc, rdiff, cdiff)]]

\* np.fft.fftshift along one axis of length n: out[i] = in[FftShift(i, n)]
FftShift(i, n) == (i - n \div 2) % n

FreqSquared_offcentre(i, j, npts) ==
    (2 * i + 2 - npts) * (2 * i + 2 - npts) + (2 * j + 2 - npts) * (2 * j + 2 - npts)

\* lines 673-679: freq*freq of the cell (i, j) of the shifted spectrum, in
\* units of (wn/2)^2: freqx = (i+1-cx)*wn with cx = npts/2+1
FreqSquared(i, j, npts) ==
    (2 * i - npts) * (2 * i - npts) + (2 * j - npts) * (2 * j - npts)

\* lines 672-681: the spectrum handed to ifft2. Its cell k holds the
\* coefficient `bin` of fft2(data1) times the square root of `freq2`, the
\* weight of the cell `at` of the shifted spectrum
Filtered(npts) ==
    [k \in Cells(npts, npts) |->
        LET i == FftShift(k[1], npts)
            j == FftShift(k[2], npts)
        IN  [bin |-> <<FftShift(i, npts), FftShift(j, npts)>>,
             at |-> <<i, j>>,
             freq2 |-> FreqSquared(i, j, npts)]]

CropAt_trailing(c, v) == <<c[1] + v.rdiff2, c[2] + v.cdiff2>>

\* line 683: the cell of fzinv that cell c of fzinv[rdiff:nr+rdiff,
\* cdiff:nc+cdiff] is
CropAt(c, v) == <<c[1] + v.rdiff, c[2] + v.cdiff>>

\* lines 682-683: np.real(fzinv[...]) is a plain array, without a mask; a
\* cell is the sample of the filtered field at a cell of the padded square
Cropped(rows, cols, v) ==
    [nr |-> rows, nc |-> cols, masked |-> FALSE,
     a |-> [c \in Cells(rows, cols) |-> [at |-> CropAt(c, v)]]]

\* the rows or columns of a slice a:b of an axis of length n
SliceLen(a, b, n) == Len(PyRange(PyIndex(a, n), PyIndex(b, n)))

VertInput(k, m, r, c, sized, n) ==
    [pc |-> "call", kind |-> k, mkind |-> m, data |-> Grid(k, m, r, c),
     sized |-> sized, npts |-> n]

\* the grids vertical is called on
VertKinds == {<<"flat", "none">>, <<"rows", "none">>, <<"rough", "none">>,
              <<"rough", "cells">>, <<"rows", "row">>}

InitVert ==
    /\ VisIdle
    /\ \E g \in VertKinds, r \in 1..MaxVertDim, c \in 1..MaxVertDim :
          \/ vert = VertInput(g[1], g[2], r, c, FALSE, 0)
          \/ \E n \in 1..MaxNpts : vert = VertInput(g[1], g[2], r, c, TRUE, n)
    /\ tilt = Idle
    /\ dlg = Idle
    /\ sc = Idle
    /\ polyi = Idle

\* lines 649-662
VerticalEnter ==
    /\ vert.pc = "call"
    /\ LET nr == vert.data.nr
           nc == vert.data.nc
           npts == IF vert.sized THEN vert.npts ELSE 2^nextpow2(Max(nr, nc))
           cdiff == (npts - nc) \div 2
           rdiff == (npts - nr) \div 2
       IN  vert' = [pc |-> "pad", kind |-> vert.kind, mkind |-> vert.mkind,
                    data |-> vert.data, sized |-> vert.sized, nr |-> nr, nc |-> nc,
                    z |-> Centred(vert.data), npts |-> npts,
                    cdiff |-> cdiff, rdiff |-> rdiff,
                    cdiff2 |-> npts - cdiff - nc, rdiff2 |-> npts - rdiff - nr]
    /\ UNCHANGED <<vis, tilt, dlg, sc, polyi>>

\* line 664; np.pad raises ValueError on a negative pad width
VerticalPad ==
    /\ vert.pc = "pad"
    /\ IF vert.rdiff < 0 \/ vert.rdiff2 < 0 \/ vert.cdiff < 0 \/ vert.cdiff2 < 0
       THEN vert' = [vert EXCEPT !.pc = "raised"]
       ELSE vert' = [pc |-> "filter", kind |-> vert.kind, mkind |-> vert.mkind,
                     data |-> vert.data, sized |-> vert.sized,
                     nr |-> vert.nr, nc |-> vert.nc, z |-> vert.z,
                     npts |-> vert.npts,
                     cdiff |-> vert.cdiff, rdiff |-> vert.rdiff,
                     cdiff2 |-> vert.cdiff2, rdiff2 |-> vert.rdiff2,
                     data1 |-> PadEdge(vert.z, vert.nr, vert.nc, vert.rdiff,
                                       vert.rdiff2, vert.cdiff, vert.cdiff2)]
    /\ UNCHANGED <<vis, tilt, dlg, sc, polyi>>

\* lines 669-681; line 671 divides by xint*(npts-1) and raises
\* ZeroDivisionError when npts = 1
VerticalFilter ==
    /\ vert.pc = "filter"
    /\ IF vert.npts - 1 = 0
       THEN vert' = [vert EXCEPT !.pc = "raised"]
       ELSE vert' = [pc |-> "crop", kind |-> vert.kind, mkind |-> vert.mkind,
                     data |-> vert.data, sized |-> vert.sized,
                     nr |-> vert.nr, nc |-> vert.nc, z |-> vert.z,
                     npts |-> vert.npts,
                     cdiff |-> vert.cdiff, rdiff |-> vert.rdiff,
                     cdiff2 |-> vert.cdiff2, rdiff2 |-> vert.rdiff2,
                     data1 |-> vert.data1, fz |-> Filtered(vert.npts)]
    /\ UNCHANGED <<vis, tilt, dlg, sc, polyi>>

\* lines 682-685: dz is a plain array (no mask) of samples of the filtered
\* field; a sample is named by the cell of the padded square it is taken at
VerticalReturn ==
    /\ vert.pc = "crop"
    /\ LET rows == SliceLen(vert.rdiff, vert.nr + vert.rdiff, vert.npts)
           cols == SliceLen(vert.cdiff, vert.nc + vert.cdiff, vert.npts)
       IN  vert' = [pc |-> "done", kind |-> vert.kind, mkind |-> vert.mkind,
                    data |-> vert.data, sized |-> vert.sized,
                    nr |-> vert.nr, nc |-> vert.nc, z |-> vert.z,
                    npts |-> vert.npts,
                    cdiff |-> vert.cdiff, rdiff |-> vert.rdiff,
                    cdiff2 |-> vert.cdiff2, rdiff2 |-> vert.rdiff2,
                    data1 |-> vert.data1, fz |-> vert.fz,
                    dz |-> Cropped(rows, cols, vert)]
    /\ UNCHANGED <<vis, tilt, dlg, sc, polyi>>

NextVert ==
    \/ VerticalEnter
    \/ VerticalPad
    \/ VerticalFilter
    \/ VerticalReturn

SpecVert == InitVert /\ [][NextVert]_vars

(***************************************************************************)
(* tilt1(data, azi, s). The azimuth only enters the values of ta; the      *)
(* values of the gradients and of the angles are not modelled, the five    *)
(* outputs are carried as shapes with the way they were obtained.          *)
(***************************************************************************)
\* the smallest and the largest unmasked value: data.min(), data.max()
MaskedMin(A) == CHOOSE v \in UnmaskedValues(A) : \A w \in UnmaskedValues(A) : v <= w

MaskedMax(A) == CHOOSE v \in UnmaskedValues(A) : \A w \in UnmaskedValues(A) : v >= w

\* the sum of a[i, j0 .. j0+w-1]
RECURSIVE RowSum(_, _, _, _)
RowSum(a, i, j0, w) ==
    IF w = 0 THEN RInt(0) ELSE RAdd(a[<<i, j0 + w - 1>>], RowSum(a, i, j0, w - 1))

\* the sum of a[i0 .. i0+h-1, j0 .. j0+w-1]
RECURSIVE WindowSum(_, _, _, _, _)
WindowSum(a, i0, j0, h, w) ==
    IF h = 0 THEN RInt(0)
    ELSE RAdd(RowSum(a, i0 + h - 1, j0, w), WindowSum(a, i0, j0, h - 1, w))

\* 'valid' mode needs one operand at least as large as the other on every
\* axis; si.convolve2d raises ValueError otherwise
ValidModeOk(nr, nc, s) == (s <= nr /\ s <= nc) \/ (s >= nr /\ s >= nc)

ConvValidSide_short(n, s) == Abs(n - s)

\* the length of an axis of si.convolve2d(in1, in2, 'valid') for operands of
\* lengths n and s
ConvValidSide(n, s) == Abs(n - s) + 1

\* the mask as convolve2d takes it: True is 1, False is 0
MaskNumbers(A) == [c \in DOMAIN A.mask |-> RInt(IF A.mask[c] THEN 1 ELSE 0)]

MaskRead_all(v) == v.n = v.d

\* line 593: np.ma.array(data2, mask=mask) reads a float as a boolean,
\* True when it is not zero
MaskRead(v) == v.n # 0

\* lines 590-593: the box mean of every s x s window of the data and of the
\* mask, the latter read as a boolean; when the kernel is the larger operand
\* every output cell sums the whole array
Smoothed(A, s) ==
    LET nr == ConvValidSide(A.nr, s)
        nc == ConvValidSide(A.nc, s)
        h == Min(A.nr, s)
        w == Min(A.nc, s)
        i0(c) == IF s <= A.nr THEN c[1] ELSE 0
        j0(c) == IF s <= A.nc THEN c[2] ELSE 0
    IN  [nr |-> nr, nc |-> nc,
         a |-> [c \in Cells(nr, nc) |->
                  LET t == WindowSum(A.a, i0(c), j0(c), h, w)
                  IN  RNorm(t.n, t.d * s * s)],
         mask |-> [c \in Cells(nr, nc) |->
                     LET m == WindowSum(MaskNumbers(A), i0(c), j0(c), h, w)
                     IN  MaskRead(RNorm(m.n, m.d * s * s))]]

KernelSide2_given(s) == s

\* lines 618-620: the side of the kernel of the second-order pass
KernelSide2(s) == IF s < 3 THEN 3 ELSE s

\* the shape of vertical(data, npts, 1) for a field of shape nr x nc
VerticalShape(nr, nc, npts) ==
    LET rdiff == (npts - nr) \div 2
        cdiff == (npts - nc) \div 2
    IN  <<SliceLen(rdiff, nr + rdiff, npts), SliceLen(cdiff, nc + cdiff, npts)>>

\* a masked array whose mask was never set has the scalar np.ma.nomask for a
\* mask (`nomask`); data.mask is then a 0-d False and np.ma.getmaskarray
\* gives the all-False array kept in data.mask here
TiltInput(k, m, r, c, s, nm) ==
    [pc |-> "call", kind |-> k, mkind |-> m, nomask |-> nm,
     data |-> Grid(k, m, r, c), s |-> s, arr |-> Grid(k, m, r, c).a]

InitTilt ==
    /\ VisIdle
    /\ vert = Idle
    /\ \E g \in VertKinds, r \in 1..MaxTiltDim, c \in 1..MaxTiltDim, s \in 0..MaxSmooth :
          \E nm \in {b \in BOOLEAN : b => g[2] = "none"} :
             tilt = TiltInput(g[1], g[2], r, c, s, nm)
    /\ dlg = Idle
    /\ sc = Idle
    /\ polyi = Idle

\* lines 582-587: masked cells of the array passed in are overwritten with
\* the mid-range value; `arr` is the caller's array, `field` the local data
TiltFill ==
    /\ tilt.pc = "call"
    /\ LET dm == RNorm(MaskedMin(tilt.data) + MaskedMax(tilt.data), 2)
           filled == FillMasked(tilt.arr, tilt.data.mask, dm)
       IN  tilt' = [pc |-> "smooth", kind |-> tilt.kind, mkind |-> tilt.mkind, nomask |-> tilt.nomask,
                    data |-> tilt.data, s |-> tilt.s, arr |-> filled, dm |-> dm,
                    field |-> [tilt.data EXCEPT !.a = filled]]
    /\ UNCHANGED <<vis, vert, dlg, sc, polyi>>

\* lines 589-593
TiltSmooth ==
    /\ tilt.pc = "smooth"
    /\ IF tilt.s > 0 /\ (~ValidModeOk(tilt.field.nr, tilt.field.nc, tilt.s)
                         \/ tilt.nomask)
       THEN tilt' = [tilt EXCEPT !.pc = "raised"]
       ELSE tilt' = [pc |-> "first", kind |-> tilt.kind, mkind |-> tilt.mkind, nomask |-> tilt.nomask,
                     data |-> tilt.data, s |-> tilt.s, arr |-> tilt.arr,
                     dm |-> tilt.dm, smoothed |-> tilt.s > 0,
                     field |-> IF tilt.s > 0 THEN Smoothed(tilt.field, tilt.s)
                               ELSE tilt.field]
    /\ UNCHANGED <<vis, vert, dlg, sc, polyi>>

\* lines 595-613: np.gradient raises ValueError on an axis shorter than 2;
\* dz = vertical(data, npts, 1); t1, th, tdx and ta are elementwise in dz
\* and the gradients
TiltFirstOrder ==
    /\ tilt.pc = "first"
    /\ LET nr == tilt.field.nr
           nc == tilt.field.nc
           npts == 2^nextpow2(Max(nr, nc))
           dz == VerticalShape(nr, nc, npts)
           out == [nr |-> Min(nr, dz[1]), nc |-> Min(nc, dz[2])]
       IN  IF nr < 2 \/ nc < 2
           THEN tilt' = [tilt EXCEPT !.pc = "raised"]
           ELSE tilt' = [pc |-> "second", kind |-> tilt.kind, mkind |-> tilt.mkind, nomask |-> tilt.nomask,
                         data |-> tilt.data, s |-> tilt.s, arr |-> tilt.arr,
                         dm |-> tilt.dm, smoothed |-> tilt.smoothed,
                         field |-> tilt.field, npts |-> npts,
                         t1 |-> out, th |-> out, tdx |-> out, ta |-> out]
    /\ UNCHANGED <<vis, vert, dlg, sc, polyi>>

\* lines 617-625: ts = convolve2d(t1, se, 'same') has the shape of t1;
\* t2 is elementwise in vertical(ts, npts, 1) and the gradients of ts
TiltSecondOrder ==
    /\ tilt.pc = "second"
    /\ LET side == KernelSide2(tilt.s)
           dzs == VerticalShape(tilt.t1.nr, tilt.t1.nc, tilt.npts)
       IN  tilt' = [pc |-> "masks", kind |-> tilt.kind, mkind |-> tilt.mkind, nomask |-> tilt.nomask,
                    data |-> tilt.data, s |-> tilt.s, arr |-> tilt.arr,
                    dm |-> tilt.dm, smoothed |-> tilt.smoothed,
                    field |-> tilt.field, npts |-> tilt.npts,
                    t1 |-> tilt.t1, th |-> tilt.th, tdx |-> tilt.tdx, ta |-> tilt.ta,
                    se |-> [side |-> side, mode |-> "same", of |-> "t1"],
                    t2 |-> [nr |-> Min(tilt.t1.nr, dzs[1]),
                            nc |-> Min(tilt.t1.nc, dzs[2])]]
    /\ UNCHANGED <<vis, vert, dlg, sc, polyi>>

\* lines 629-637: return t1, th, t2, ta, tdx
TiltReturn ==
    /\ tilt.pc = "masks"
    /\ tilt' = [pc |-> "done", kind |-> tilt.kind, mkind |-> tilt.mkind, nomask |-> tilt.nomask,
                data |-> tilt.data, s |-> tilt.s, arr |-> tilt.arr,
                dm |-> tilt.dm, smoothed |-> tilt.smoothed,
                field |-> tilt.field, npts |-> tilt.npts, se |-> tilt.se,
                ret |-> <<tilt.t1, tilt.th, tilt.t2, tilt.ta, tilt.tdx>>]
    /\ UNCHANGED <<vis, vert, dlg, sc, polyi>>

NextTilt ==
    \/ TiltFill
    \/ TiltSmooth
    \/ TiltFirstOrder
    \/ TiltSecondOrder
    \/ TiltReturn

SpecTilt == InitTilt /\ [][NextTilt]_vars

(***************************************************************************)
(* settings() of the dialogs Gradients, Visibility2d and Tilt1. The heap   *)
(* holds the band objects; a band is named by its position in the heap, so *)
(* that a copy and an alias differ. The values of the output bands are     *)
(* those of the engines above and are not recomputed here: an output band  *)
(* carries its shape, its mask where the dialog sets it, and its origin.   *)
(***************************************************************************)
Dialogs == {<<"Gradients", "ddir">>, <<"Gradients", "dratio">>,
            <<"Gradients", "vgrad">>, <<"Visibility2d", "-">>, <<"Tilt1", "-">>}

\* the masked array of a band: a grid, and whether its mask was never set
\* (np.ma.nomask, a 0-d False, what np.ma.array(values) gives); getmaskarray
\* and indexing by the mask read such a mask as all False
BandArray(G, nm) ==
    [nr |-> G.nr, nc |-> G.nc, a |-> G.a, mask |-> G.mask, nomask |-> nm]

\* band k of indata['Raster']: the first band is of the kind chosen, with
\* its mask unset when nm, the others are rough grids with scattered masked
\* cells
Band(k, g, r, c, nm) ==
    [dataid |-> <<k>>,
     data |-> IF k = 1 THEN BandArray(Grid(g[1], g[2], r, c), nm)
              ELSE BandArray(Grid("rough", "cells", r, c), FALSE)]

DlgInput(d, g, r, c, nb, p, nm) ==
    [pc |-> "exec", dialog |-> d[1], mode |-> d[2], param |-> p,
     bands |-> [k \in 1..nb |-> Band(k, g, r, c, nm)],
     heap |-> [k \in 1..nb |-> Band(k, g, r, c, nm)],
     indata |-> [k \in 1..nb |-> k],
     outdata |-> <<>>]

InitDlg ==
    /\ VisIdle
    /\ vert = Idle
    /\ tilt = Idle
    /\ \E d \in Dialogs, g \in VertKinds, r \in 1..MaxDlgDim, c \in 1..MaxDlgDim,
          nb \in 1..MaxBands, p \in 0..MaxDlgParam :
          \E nm \in {b \in BOOLEAN : b => g[2] = "none"} :
             dlg = DlgInput(d, g, r, c, nb, p, nm)
    /\ sc = Idle
    /\ polyi = Idle

DeepCopy_alias(heap, refs) == [heap |-> heap, refs |-> refs]

\* copy.deepcopy(refs): every band object is copied to a new place of the
\* heap, arrays included
DeepCopy(heap, refs) ==
    [heap |-> heap \o [k \in 1..Len(refs) |-> heap[refs[k]]],
     refs |-> [k \in 1..Len(refs) |-> Len(heap) + k]]

\* lines 124-126, 293-295, 520-522: the dialog is cancelled
DlgReject ==
    /\ dlg.pc = "exec"
    /\ dlg' = [pc |-> "returned", dialog |-> dlg.dialog, mode |-> dlg.mode,
               param |-> dlg.param, bands |-> dlg.bands, heap |-> dlg.heap,
               indata |-> dlg.indata, outdata |-> dlg.outdata, result |-> FALSE]
    /\ UNCHANGED <<vis, vert, tilt, sc, polyi>>

\* lines 128-132, 297-301, 524-528: the dialog is accepted, the spin boxes
\* are read and indata['Raster'] is deep-copied
DlgAccept ==
    /\ dlg.pc = "exec"
    /\ LET cp == DeepCopy(dlg.heap, dlg.indata)
       IN  dlg' = [pc |-> "loop", dialog |-> dlg.dialog, mode |-> dlg.mode,
                   param |-> dlg.param, bands |-> dlg.bands, heap |-> cp.heap,
                   indata |-> dlg.indata, outdata |-> dlg.outdata,
                   data |-> cp.refs, data2 |-> <<>>, i |-> 1, dz |-> <<>>,
                   req |-> -1]
    /\ UNCHANGED <<vis, vert, tilt, sc, polyi>>

GetMaskArray_none(A) ==
    [nr |-> A.nr, nc |-> A.nc, a |-> [c \in Cells(A.nr, A.nc) |-> FALSE]]

\* np.ma.getmaskarray(A)
GetMaskArray(A) == [nr |-> A.nr, nc |-> A.nc, a |-> A.mask]

\* vertical(A): the return value, for a band with max(nr, nc) >= 2
VerticalOf(A) ==
    LET npts == 2^nextpow2(Max(A.nr, A.nc))
        v == [rdiff |-> (npts - A.nr) \div 2, cdiff |-> (npts - A.nc) \div 2]
    IN  Cropped(SliceLen(v.rdiff, A.nr + v.rdiff, npts),
                SliceLen(v.cdiff, A.nc + v.cdiff, npts), v)

\* the band object b with its data attribute bound to the array A
Rebound(b, A) == [dataid |-> b.dataid, data |-> A]

\* lines 136-139: gradients and derivative_ratio start with np.gradient,
\* which raises ValueError on an axis shorter than 2, and are elementwise
\* in its results
GradientBand ==
    /\ dlg.pc = "loop" /\ dlg.i <= Len(dlg.data)
    /\ dlg.dialog = "Gradients" /\ dlg.mode \in {"ddir", "dratio"}
    /\ LET ref == dlg.data[dlg.i]
           A == dlg.heap[ref].data
       IN  IF A.nr < 2 \/ A.nc < 2
           THEN dlg' = [dlg EXCEPT !.pc = "raised"]
           ELSE dlg' = [dlg EXCEPT
                          !.heap[ref] = Rebound(@, [nr |-> A.nr, nc |-> A.nc,
                                                    of |-> dlg.mode]),
                          !.i = @ + 1]
    /\ UNCHANGED <<vis, vert, tilt, sc, polyi>>

\* lines 141-143: the mask is taken from the band, vertical returns a plain
\* array (or raises on a 1x1 band), the mask is set on the new array
VerticalBand ==
    /\ dlg.pc = "loop" /\ dlg.i <= Len(dlg.data)
    /\ dlg.dialog = "Gradients" /\ dlg.mode = "vgrad"
    /\ LET ref == dlg.data[dlg.i]
           A == dlg.heap[ref].data
           mask == GetMaskArray(A)
       IN  IF Max(A.nr, A.nc) < 2
           THEN dlg' = [dlg EXCEPT !.pc = "raised"]
           ELSE dlg' = [dlg EXCEPT
                          !.heap[ref] = Rebound(@, SetMask(VerticalOf(A), mask)),
                          !.dz = Append(@, VerticalOf(A)),
                          !.i = @ + 1]
    /\ UNCHANGED <<vis, vert, tilt, sc, polyi>>

\* the shape and the mask of an output of visibility2d(A, wsize, ...)
VisibilityOut(A, wsize) ==
    LET w2 == wsize \div 2
        t == Slice2(Zeros(A.nr, A.nc), w2, A.nr - w2, w2, A.nc - w2)
        m == Slice2(GetMaskArray(A), w2, -w2, w2, -w2)
    IN  [nr |-> t.nr, nc |-> t.nc, mask |-> SetMask(t, m).mask]

\* the new band objects data2 gets for a band: deep copies of the band, each
\* with data bound to an output
Outputs(b, outs, tags) ==
    [k \in 1..Len(outs) |-> [dataid |-> Append(b.dataid, tags[k]), data |-> outs[k]]]

\* lines 365, 371, 377, 393: the elements visibility2d asks the progress
\* iterator for, over its four loops on the columns
Requests(nc, wsize) ==
    LET w2 == wsize \div 2
    IN  nc + Max(0, nc - 2 * w2) + Max(0, nc - 2 * w2) + nc

\* lines 303-308 and 347-363: the next band is handed to visibility2d, which
\* fills the masked cells of the array it is given with the mean before it
\* asks the progress iterator for anything; req counts the elements the
\* iterator has given, -1 outside visibility2d
VisibilityEnter ==
    /\ dlg.pc = "loop" /\ dlg.i <= Len(dlg.data)
    /\ dlg.dialog = "Visibility2d" /\ dlg.req = -1
    /\ LET ref == dlg.data[dlg.i]
           A == dlg.heap[ref].data
           filled == [A EXCEPT !.a = FillMasked(A.a, A.mask, MaskedMean(A))]
       IN  dlg' = [dlg EXCEPT !.heap[ref] = Rebound(@, filled), !.req = 0]
    /\ UNCHANGED <<vis, vert, tilt, sc, polyi>>

\* lines 365-397: the progress iterator gives the next column of a loop of
\* visibility2d; the counts are local to visibility2d and the bands are as
\* they were
VisibilityScan ==
    /\ dlg.pc = "loop" /\ dlg.dialog = "Visibility2d"
    /\ dlg.req >= 0
    /\ dlg.req < Requests(dlg.heap[dlg.data[dlg.i]].data.nc, 3 + dlg.param)
    /\ dlg' = [dlg EXCEPT !.req = @ + 1]
    /\ UNCHANGED <<vis, vert, tilt, sc, polyi>>

\* lines 399-416 and 309-317: the last loop is over, visibility2d returns
\* and three output bands are appended to data2
VisibilityBand ==
    /\ dlg.pc = "loop" /\ dlg.i <= Len(dlg.data)
    /\ dlg.dialog = "Visibility2d"
    /\ dlg.req = Requests(dlg.heap[dlg.data[dlg.i]].data.nc, 3 + dlg.param)
    /\ LET ref == dlg.data[dlg.i]
           filled == dlg.heap[ref].data
           out == VisibilityOut(filled, 3 + dlg.param)
           new == Outputs(dlg.heap[ref], <<out, out, out>>,
                          <<"Total Visibility", "Visibility Variation",
                            "Visibility Vector Resultant">>)
           n == Len(dlg.heap)
       IN  dlg' = [dlg EXCEPT
                     !.heap = @ \o new,
                     !.data2 = @ \o <<n + 1, n + 2, n + 3>>,
                     !.i = @ + 1,
                     !.req = -1]
    /\ UNCHANGED <<vis, vert, tilt, sc, polyi>>

\* self.pbar.iter raises when it is asked for its next element: in the loop
\* over the bands of Gradients (line 134) and Tilt1 (line 530), and in the
\* loops of visibility2d; settings() is left with outdata as it was
DlgPiterRaise ==
    /\ dlg.pc = "loop"
    /\ dlg.dialog = "Visibility2d" => dlg.req >= 0
    /\ dlg' = [dlg EXCEPT !.pc = "raised"]
    /\ UNCHANGED <<vis, vert, tilt, sc, polyi>>

\* tilt1(A, azi, s) raises: convolve2d on operands that do not nest or on a
\* mask that was never set (a 0-d array), or np.gradient on a field with an
\* axis shorter than 2
TiltRaises(A, s) ==
    \/ s > 0 /\ ~ValidModeOk(A.nr, A.nc, s)
    \/ s > 0 /\ A.nomask
    \/ (IF s > 0 THEN ConvValidSide(A.nr, s) ELSE A.nr) < 2
    \/ (IF s > 0 THEN ConvValidSide(A.nc, s) ELSE A.nc) < 2

\* lines 530-546: tilt1 fills the masked cells of the array it is given
\* with the mid-range value; five output bands are appended to data2
TiltBand ==
    /\ dlg.pc = "loop" /\ dlg.i <= Len(dlg.data)
    /\ dlg.dialog = "Tilt1"
    /\ LET ref == dlg.data[dlg.i]
           A == dlg.heap[ref].data
           s == dlg.param
           dm == RNorm(MaskedMin(A) + MaskedMax(A), 2)
           filled == [A EXCEPT !.a = FillMasked(A.a, A.mask, dm)]
           out == [nr |-> IF s > 0 THEN ConvValidSide(A.nr, s) ELSE A.nr,
                   nc |-> IF s > 0 THEN ConvValidSide(A.nc, s) ELSE A.nc,
                   nulled |-> FALSE]
           new == Outputs(Rebound(dlg.heap[ref], filled), <<out, out, out, out, out>>,
                          <<"Standard Tilt Angle", "Hyperbolic Tilt Angle",
                            "2nd Order Tilt Angle",
                            "Tilt Based Directional Derivative", "Total Derivative">>)
           n == Len(dlg.heap)
       IN  IF TiltRaises(A, s)
           THEN dlg' = [dlg EXCEPT !.heap[ref] = Rebound(@, filled), !.pc = "raised"]
           ELSE dlg' = [dlg EXCEPT
                          !.heap = [@ EXCEPT ![ref] = Rebound(@, filled)] \o new,
                          !.data2 = @ \o <<n + 1, n + 2, n + 3, n + 4, n + 5>>,
                          !.i = @ + 1]
    /\ UNCHANGED <<vis, vert, tilt, sc, polyi>>

\* lines 145-148, 319-322, 548-552: the loop is over; Tilt1 writes the null
\* value under the mask of every output band; outdata['Raster'] is set
DlgFinish ==
    /\ dlg.pc = "loop" /\ dlg.i > Len(dlg.data)
    /\ LET out == IF dlg.dialog = "Gradients" THEN dlg.data ELSE dlg.data2
           heap == IF dlg.dialog = "Tilt1"
                   THEN [k \in 1..Len(dlg.heap) |->
                           IF \E j \in 1..Len(out) : out[j] = k
                           THEN Rebound(dlg.heap[k],
                                        [dlg.heap[k].data EXCEPT !.nulled = TRUE])
                           ELSE dlg.heap[k]]
                   ELSE dlg.heap
       IN  dlg' = [pc |-> "returned", dialog |-> dlg.dialog, mode |-> dlg.mode,
                   param |-> dlg.param, bands |-> dlg.bands, heap |-> heap,
                   indata |-> dlg.indata, outdata |-> out, result |-> TRUE,
                   data |-> dlg.data, dz |-> dlg.dz]
    /\ UNCHANGED <<vis, vert, tilt, sc, polyi>>

NextDlg ==
    \/ DlgReject
    \/ DlgAccept
    \/ GradientBand
    \/ VerticalBand
    \/ VisibilityEnter
    \/ VisibilityScan
    \/ VisibilityBand
    \/ TiltBand
    \/ DlgPiterRaise
    \/ DlgFinish

SpecDlg == InitDlg /\ [][NextDlg]_vars

(***************************************************************************)
(* SuperClass: one run of settings(), and the buttons, the class table and *)
(* the polygon editor of the dialog while exec_() is running. An exception *)
(* raised in a slot is recorded as the result of that slot; what the slot  *)
(* changed before it raised stays changed.                                 *)
(***************************************************************************)
\* 'Class '+str(k)
ClassName(k) == <<"Class", k>>

\* Polygon([]): the empty geometry
EmptyPolygon == <<>>

\* two closed rings, as list(geometry.exterior.coords) gives them
Rings == {<< <<0, 0>>, <<1, 0>>, <<0, 1>>, <<0, 0>> >>,
          << <<1, 1>>, <<0, 1>>, <<1, 0>>, <<1, 1>> >>}

RingA == << <<0, 0>>, <<1, 0>>, <<0, 1>>, <<0, 0>> >>

RingB == << <<1, 1>>, <<0, 1>>, <<1, 0>>, <<1, 1>> >>

\* a row of df: its index label, its class and its geometry
DfRow(label, class, geometry) ==
    [label |-> label, class |-> class, geometry |-> geometry]

\* what the file dialog and gpd.read_file can give load_shape: no file
\* chosen, a file without a 'class' column, and files of 0, 1 and 2 polygons
Files ==
    {[filename |-> "", columns |-> {}, rows |-> <<>>],
     [filename |-> "plain.shp", columns |-> {"geometry"},
      rows |-> <<DfRow(0, <<"-", 0>>, RingA)>>],
     [filename |-> "none.shp", columns |-> {"class", "geometry"}, rows |-> <<>>],
     [filename |-> "one.shp", columns |-> {"class", "geometry"},
      rows |-> <<DfRow(0, <<"forest", 0>>, RingA)>>],
     [filename |-> "two.shp", columns |-> {"class", "geometry"},
      rows |-> <<DfRow(0, <<"forest", 0>>, RingA), DfRow(1, <<"water", 0>>, RingB)>>]}

\* mPolygon.set_xy: a polygon whose first and last vertex differ is closed
\* by repeating the first
SetXY(pts) ==
    IF pts # <<>> /\ pts[1] # pts[Len(pts)] THEN Append(pts, pts[1]) ELSE pts

\* every kind of event `ops` records
Mixed == {"onrowchange", "mouse", "load_shape", "load_error"}

\* `ops` keeps apart the histories the properties are about (row selections
\* and mouse events; files loaded); every other history is recorded as Mixed
Recorded(ops) ==
    IF ops \subseteq {"onrowchange", "mouse"} \/ ops \subseteq {"load_shape"} THEN ops
    ELSE Mixed

\* when exec_() ends the record of the session ends with it
Closed(st) == [st EXCEPT !.ops = {}, !.presses = 0, !.drags = 0]

\* the state of a SuperClass after __init__, with or without
\* indata['Raster']; poly, ind and isactive are poly.xy, _ind (-1 for None)
\* and isactive of map.polyi; ctext is combo_class.currentText(); `ops` is
\* the set of what has happened besides Add Polygon and Delete Polygon: a
\* row selected by hand ("onrowchange"), a mouse callback that changed
\* something ("mouse"), a file loaded ("load_shape"), a file whose loading
\* raised ("load_error"); `presses` counts the presses of button 1 the
\* active editor got, `drags` the motion events that moved a held vertex
ScInput(raster) ==
    [pc |-> "call", raster |-> raster, hasdf |-> FALSE, df |-> <<>>,
     table |-> <<>>, cur |-> -1, poly |-> <<>>, ind |-> -1, isactive |-> FALSE,
     presses |-> 0, drags |-> 0, ctext |-> "K Neighbors Classifier",
     outdata |-> {}, result |-> "-", ops |-> {},
     last |-> [op |-> "-", result |-> "-", line |-> 0]]

InitSc ==
    /\ VisIdle
    /\ vert = Idle
    /\ tilt = Idle
    /\ dlg = Idle
    /\ \E raster \in BOOLEAN : sc = ScInput(raster)
    /\ polyi = Idle

\* the outcome of a slot
Outcome(op, result, line) == [op |-> op, result |-> result, line |-> line]

\* the positions of the rows of df with index label `label`
Labelled(df, label) == {k \in 1..Len(df) : df[k].label = label}

\* df.loc[label] = None; df.loc[label, 'class'] = class;
\* df.loc[label, 'geometry'] = geometry: the row with that label is
\* overwritten, or appended when there is none
DfSet(df, label, class, geometry) ==
    IF Labelled(df, label) = {} THEN Append(df, DfRow(label, class, geometry))
    ELSE [k \in 1..Len(df) |->
            IF df[k].label = label THEN DfRow(label, class, geometry) ELSE df[k]]

\* Polygon(xycoords), read back as list(geometry.exterior.coords): the ring
\* of a shapely polygon is closed
Exterior(xycoords) ==
    IF xycoords[1] # xycoords[Len(xycoords)] THEN Append(xycoords, xycoords[1])
    ELSE xycoords

\* lines 611-623: updatepoly, the slot of polyi_changed, on the state st
UpdatePoly(st) ==
    IF st.cur = -1 THEN st
    ELSE [st EXCEPT !.df = DfSet(st.df, st.cur, st.table[st.cur + 1],
                                 IF Len(st.poly) < 4 THEN EmptyPolygon
                                 ELSE Exterior(st.poly))]

\* lines 361-372: update_plots emits polyi_changed for a polygon of 4 or
\* more vertices
UpdatePlots(st) == IF Len(st.poly) < 4 THEN st ELSE UpdatePoly(st)

\* lines 206-226: new_poly(npoly)
NewPoly(st, npoly) == UpdatePlots([st EXCEPT !.poly = SetXY(npoly)])

\* the geometry of the row of df with that label
Geometry(df, label) == df[CHOOSE k \in Labelled(df, label) : TRUE].geometry

\* lines 641-650: onrowchange(current, previous), None given as -1
OnRowChange(st, current, previous) ==
    IF previous = -1 \/ current = -1 THEN st
    ELSE IF current = previous THEN st
    ELSE IF Geometry(st.df, current) = EmptyPolygon THEN st
    ELSE NewPoly(st, Geometry(st.df, current))

\* lines 793-812: without indata['Raster'] settings returns False; with it
\* the map gets a new polygon editor, inactive and holding the single
\* point (1, 1), and the dialog is shown
SettingsEnter ==
    /\ sc.pc = "call"
    /\ IF ~sc.raster
       THEN sc' = [sc EXCEPT !.pc = "returned", !.result = "False"]
       ELSE sc' = [sc EXCEPT !.pc = "exec", !.poly = SetXY(<< <<1, 1>> >>),
                             !.ind = -1, !.isactive = FALSE]
    /\ UNCHANGED <<vis, vert, tilt, dlg, polyi>>

\* lines 679-700; the button is pressed while the table has fewer than
\* MaxRows rows, fewer than MaxDragRows once a vertex has been moved
OnApoly ==
    /\ sc.pc = "exec"
    /\ Len(sc.table) < (IF sc.drags > 0 THEN MaxDragRows ELSE MaxRows)
    /\ LET row == Len(sc.table)
           st1 == [sc EXCEPT !.hasdf = TRUE,
                             !.table = Append(@, ClassName(row + 1))]
           st2 == NewPoly(st1, << <<1, 1>> >>)
           st3 == [st2 EXCEPT !.df = DfSet(@, row, ClassName(row + 1), EmptyPolygon)]
           st4 == OnRowChange([st3 EXCEPT !.cur = row], row, sc.cur)
       IN  sc' = [st4 EXCEPT !.isactive = TRUE,
                             !.last = Outcome("on_apoly", "None", 0)]
    /\ UNCHANGED <<vis, vert, tilt, dlg, polyi>>

\* the current row the selection model of the table (a QTableWidget left in
\* its default selection mode) moves to when row `row` of n rows is about to
\* be removed: the row above, else the row below, else none
NextCurrent(row, n) == IF row > 0 THEN row - 1 ELSE IF n > 1 THEN 1 ELSE -1

\* the position of that row once row `row` is gone
AfterRemoval(row, n) == IF row > 0 THEN row - 1 ELSE IF n > 1 THEN 0 ELSE -1

\* reset_index(drop=True)
ResetIndex(df) == [k \in 1..Len(df) |-> [df[k] EXCEPT !.label = k - 1]]

\* the sequence without the elements at the positions in `drop`
RECURSIVE Without(_, _)
Without(xs, drop) ==
    IF xs = <<>> THEN <<>>
    ELSE LET n == Len(xs)
             init == Without(SubSeq(xs, 1, n - 1), drop)
         IN  IF n \in drop THEN init ELSE Append(init, xs[n])

\* lines 711-717: with no current row removeRow(-1) does nothing and
\* df.drop(-1) raises KeyError (AttributeError without df); otherwise the view changes the current row
\* while the row is still there (onrowchange runs), the row goes, and df
\* loses the row with that label
OnDpoly ==
    /\ sc.pc = "exec"
    /\ LET row == sc.cur
           n == Len(sc.table)
       IN  IF row = -1 \/ Labelled(sc.df, row) = {}
           THEN sc' = [sc EXCEPT
                         !.table = Without(@, {row + 1}),
                         !.cur = IF row = -1 THEN -1 ELSE AfterRemoval(row, n),
                         !.last = Outcome("on_dpoly",
                                          IF sc.hasdf THEN "KeyError"
                                          ELSE "AttributeError", 713)]
           ELSE LET st1 == OnRowChange([sc EXCEPT !.cur = NextCurrent(row, n)],
                                       NextCurrent(row, n), row)
                    st2 == [st1 EXCEPT
                              !.table = Without(@, {row + 1}),
                              !.cur = AfterRemoval(row, n),
                              !.df = ResetIndex(Without(@, Labelled(st1.df, row)))]
                    st3 == IF st2.table = <<>>
                           THEN [NewPoly(st2, << <<1, 1>> >>) EXCEPT !.isactive = FALSE]
                           ELSE st2
                IN  sc' = [st3 EXCEPT !.last = Outcome("on_dpoly", "None", 0)]
    /\ UNCHANGED <<vis, vert, tilt, dlg, polyi>>

\* the user clicks another row of the class table: currentItemChanged
SelectRow ==
    /\ sc.pc = "exec"
    /\ \E row \in 0..(Len(sc.table) - 1) :
          /\ row # sc.cur
          /\ Labelled(sc.df, row) # {}
          /\ sc' = [OnRowChange([sc EXCEPT !.cur = row], row, sc.cur) EXCEPT
                      !.ops = Recorded(@ \cup {"onrowchange"}),
                      !.last = Outcome("onrowchange", "None", 0)]
    /\ UNCHANGED <<vis, vert, tilt, dlg, polyi>>

\* lines 741-763: no file or a file without the two columns gives False;
\* otherwise df is the file, the table is rebuilt, row 0 is selected and its
\* polygon goes to the editor; the end of the function is reached without a
\* return statement
LoadShape ==
    /\ sc.pc = "exec"
    /\ \E file \in Files :
          IF file.filename = ""
          THEN sc' = [sc EXCEPT !.last = Outcome("load_shape", "False", 747)]
          ELSE IF ~({"class", "geometry"} \subseteq file.columns)
          THEN sc' = [sc EXCEPT !.last = Outcome("load_shape", "False", 751)]
          ELSE LET st1 == [sc EXCEPT
                             !.hasdf = TRUE, !.df = file.rows,
                             !.table = [k \in 1..Len(file.rows) |->
                                          ClassName(file.rows[k].label + 1)],
                             !.isactive = TRUE,
                             !.cur = IF file.rows = <<>> THEN -1 ELSE 0]
               IN  IF Labelled(st1.df, 0) = {}
                   THEN sc' = [st1 EXCEPT !.ops = Recorded(@ \cup {"load_error"}),
                                          !.last = Outcome("load_shape", "KeyError", 762)]
                   ELSE sc' = [NewPoly(st1, Geometry(st1.df, 0)) EXCEPT
                                 !.ops = Recorded(@ \cup {"load_shape"}),
                                 !.last = Outcome("load_shape", "None", 763)]
    /\ UNCHANGED <<vis, vert, tilt, dlg, polyi>>

\* lines 775-781: no file name gives False; otherwise df.to_file, on None
\* an AttributeError; the end of the function is reached without a return
\* statement
SaveShape ==
    /\ sc.pc = "exec"
    /\ \E filename \in {"", "out.shp"} :
          sc' = [sc EXCEPT !.last =
                   IF filename = "" THEN Outcome("save_shape", "False", 779)
                   ELSE IF ~sc.hasdf THEN Outcome("save_shape", "AttributeError", 781)
                   ELSE Outcome("save_shape", "None", 781)]
    /\ UNCHANGED <<vis, vert, tilt, dlg, polyi>>

\* line 921: the image the polygon is drawn on is filled with 1
Background == 1

\* line 923: polygon(pixels) is given no fill and no outline, so only the
\* outline is drawn, with the default ink of an "L" image (draw_ink(-1),
\* clipped to 0)
DefaultInk == 0

\* the pixels of the raster of the map
Pixels == Cells(2, 2)

\* lines 921-924: the image after rasterize.polygon(pixels); the vertices
\* are on the outline
Drawn(ring) ==
    [p \in Pixels |->
        IF \E k \in 1..Len(ring) : ring[k] = <<p[2], p[1]>> THEN DefaultInk
        ELSE Background]

\* lines 924-926: ~mask, the pixels of the image that are 0
PolygonPixels(ring) == {p \in Pixels : Drawn(ring)[p] = 0}

\* lines 915-926: the pixels of a class, over all rows of that class
ClassPixels(df, class) ==
    UNION {PolygonPixels(df[k].geometry) : k \in {j \in 1..Len(df) : df[j].class = class}}

\* lines 934-942: lbls, the classes that have a pixel
Labels(df) == {df[k].class : k \in {j \in 1..Len(df) : ClassPixels(df, df[j].class) # {}}}

\* lines 915-919: the keys of masks, the classes of the rows of df
Masks(df) == {df[k].class : k \in 1..Len(df)}

\* lines 937-939: the number of samples of each class in y, one for every
\* pixel of its mask; a pixel in the masks of two classes is a sample of both
RECURSIVE Samples(_, _)
Samples(df, classes) ==
    IF classes = {} THEN 0
    ELSE LET class == CHOOSE c \in classes : TRUE
         IN  Cardinality(ClassPixels(df, class)) + Samples(df, classes \ {class})

\* line 951: train_test_split(x, y, stratify=y) with the default test size
\* of 0.25 leaves ceil(n/4) of the n samples for the test set
TestSize(n) == (n + 3) \div 4

TrainSize(n) == n - TestSize(n)

\* line 951: the stratified split raises ValueError when a class has a
\* single sample, or when the training set or the test set has fewer
\* samples than there are classes
SplitRaises(df) ==
    LET n == Samples(df, Masks(df))
    IN  \/ \E class \in Labels(df) : Cardinality(ClassPixels(df, class)) < 2
        \/ TrainSize(n) < Cardinality(Labels(df))
        \/ TestSize(n) < Cardinality(Labels(df))

\* lines 898-956: init_classifier returns False or a 5-tuple, or raises:
\* AttributeError without df, TypeError of polygon() on a row with an empty
\* coordinate list, ValueError of np.vstack without rows, ValueError of
\* train_test_split. The four classifiers are all fitted without an error.
InitClassifier(st) ==
    IF ~st.hasdf THEN Outcome("init_classifier", "AttributeError", 915)
    ELSE IF \E k \in 1..Len(st.df) : Len(st.df[k].geometry) < 2
    THEN Outcome("init_classifier", "TypeError", 923)
    ELSE IF st.df = <<>> THEN Outcome("init_classifier", "ValueError", 941)
    ELSE IF Cardinality(Labels(st.df)) < 2 THEN Outcome("init_classifier", "False", 946)
    ELSE IF SplitRaises(st.df) THEN Outcome("init_classifier", "ValueError", 951)
    ELSE Outcome("init_classifier", "tuple", 956)

\* KNeighborsClassifier() is built with the default n_neighbors
NNeighbors == 5

\* classifier.predict at that line, on a classifier init_classifier has
\* fitted: kneighbors raises ValueError when it was fitted on fewer than
\* n_neighbors samples, the other three classifiers predict
Predict(st, line) ==
    IF /\ st.ctext = "K Neighbors Classifier"
       /\ TrainSize(Samples(st.df, Masks(st.df))) < NNeighbors
    THEN Outcome("predict", "ValueError", line)
    ELSE Outcome("predict", "array", line)

\* the outcome of `a, b, c, d, e = self.init_classifier()` at that line: an
\* exception of init_classifier passes through, False cannot be unpacked
Unpacked(st, line) ==
    LET r == InitClassifier(st)
    IN  IF r.result = "False" THEN Outcome("unpack", "TypeError", line) ELSE r

\* lines 577-595
CalcMetrics ==
    /\ sc.pc = "exec"
    /\ LET r == Unpacked(sc, 580)
           y_pred == Predict(sc, 583)
       IN  sc' = [sc EXCEPT !.last =
                    IF ~sc.hasdf THEN Outcome("calc_metrics", "None", 578)
                    ELSE IF r.result # "tuple"
                    THEN Outcome("calc_metrics", r.result, r.line)
                    ELSE IF y_pred.result = "ValueError"
                    THEN Outcome("calc_metrics", y_pred.result, y_pred.line)
                    ELSE Outcome("calc_metrics", "None", 595)]
    /\ UNCHANGED <<vis, vert, tilt, dlg, polyi>>

\* lines 481-487: the items of combo_class, in their order; the first is
\* the current one when the dialog opens
Choices ==
    <<"K Neighbors Classifier", "Decision Tree Classifier",
      "Random Forest Classifier", "Support Vector Classifier">>

\* the user picks another item of combo_class; class_change (lines 539-566)
\* shows the options of that classifier
ClassChange ==
    /\ sc.pc = "exec"
    /\ \E k \in 1..MaxChoices :
          /\ Choices[k] # sc.ctext
          /\ sc' = [sc EXCEPT !.ctext = Choices[k],
                              !.last = Outcome("class_change", "None", 566)]
    /\ UNCHANGED <<vis, vert, tilt, dlg, polyi>>

\* lines 812-815: the dialog is cancelled
Reject ==
    /\ sc.pc = "exec"
    /\ sc' = [Closed(sc) EXCEPT !.pc = "returned", !.result = "False",
                               !.last = Outcome("settings", "False", 815)]
    /\ UNCHANGED <<vis, vert, tilt, dlg, polyi>>

\* datatypes.py lines 109-122: the attributes Data.__init__ gives an object
DataAttributes ==
    {"data", "extent", "tlx", "tly", "xdim", "ydim", "dataid", "rows", "cols",
     "nullvalue", "wkt", "units", "isrgb"}

\* lines 830-865: the attributes of dat_out[-1] that settings reads (an
\* assignment to an attribute always works, a read needs the attribute),
\* with the line of the first read, in the order of the lines
DataReads ==
    <<[attr |-> "metadata", line |-> 830],
      [attr |-> "metadata", line |-> 832],
      [attr |-> "metadata", line |-> 844],
      [attr |-> "metadata", line |-> 845],
      [attr |-> "metadata", line |-> 846],
      [attr |-> "metadata", line |-> 856],
      [attr |-> "metadata", line |-> 857],
      [attr |-> "metadata", line |-> 863],
      [attr |-> "data", line |-> 868] >>

\* the first read of an attribute the object does not have, 0 if none
FirstMissing(reads, attrs) ==
    LET missing == {k \in 1..Len(reads) : reads[k].attr \notin attrs}
    IN  IF missing = {} THEN 0
        ELSE CHOOSE k \in missing : \A j \in missing : k <= j

\* lines 827-878: the classified band is built on Data(); reading an
\* attribute the object lacks raises AttributeError
BuildOutput(attrs) ==
    LET k == FirstMissing(DataReads, attrs)
    IN  IF k = 0 THEN Outcome("settings", "True", 878)
        ELSE Outcome("settings", "AttributeError", DataReads[k].line)

\* lines 812-878: the dialog is accepted
Accept ==
    /\ sc.pc = "exec"
    /\ LET r == Unpacked(sc, 817)
           yout == Predict(sc, 822)
           b == BuildOutput(DataAttributes)
       IN  IF r.result # "tuple"
           THEN sc' = [Closed(sc) EXCEPT !.pc = "raised", !.result = r.result,
                                         !.last = Outcome("settings", r.result, r.line)]
           ELSE IF yout.result = "ValueError"
           THEN sc' = [Closed(sc) EXCEPT !.pc = "raised", !.result = yout.result,
                                         !.last = Outcome("settings", yout.result, yout.line)]
           ELSE IF b.result = "True"
           THEN sc' = [Closed(sc) EXCEPT !.pc = "returned", !.result = "True",
                                         !.outdata = {"Cluster", "Raster"},
                                         !.last = b]
           ELSE sc' = [Closed(sc) EXCEPT !.pc = "raised", !.result = b.result,
                                         !.last = b]
    /\ UNCHANGED <<vis, vert, tilt, dlg, polyi>>

(***************************************************************************)
(* PolygonInteractor: the callbacks matplotlib delivers the mouse events   *)
(* to, and new_poly as the slots of SuperClass call it. poly.xy is the     *)
(* array of the vertices; _ind is kept as -1 for None. The points of the   *)
(* canvas are the pixel centres of the map; two different points are       *)
(* further apart on the screen than epsilon, and the axes have one scale.  *)
(***************************************************************************)
\* where the mouse can be: (xdata, ydata)
CanvasPoints == Pixels

\* a mouse event: where it is, the button held, and whether it is over the
\* axes (inaxes is not None); outside the axes xdata and ydata are None and
\* no callback reads the position, one point stands for it
MouseEvents ==
    {e \in [p : CanvasPoints, button : {1, 3}, inaxes : BOOLEAN] :
        ~e.inaxes => e.p = <<0, 0>>}

\* lines 156-182: the interactor after __init__
PolyInput ==
    [pc |-> "run", xy |-> SetXY(<< <<1, 1>> >>), ind |-> -1, isactive |-> FALSE,
     emitted |-> FALSE, last |-> Outcome("__init__", "None", 182)]

InitPoly ==
    /\ VisIdle
    /\ vert = Idle
    /\ tilt = Idle
    /\ dlg = Idle
    /\ sc = Idle
    /\ polyi = PolyInput

\* lines 264-274: the index of the first vertex nearest to the event, None
\* when that vertex is epsilon or more away
get_ind_under_point(xy, event) ==
    LET at == {k \in 1..Len(xy) : xy[k] = event.p}
    IN  IF at = {} THEN -1
        ELSE (CHOOSE k \in at : \A j \in at : k <= j) - 1

\* the dot product of two vectors
Dot(u, v) == u[1] * v[1] + u[2] * v[2]

\* lines 1011-1027: dist_point_to_segment(p, s0, s1), kept as its square
dist_point_to_segment(p, s0, s1) ==
    LET v == <<s1[1] - s0[1], s1[2] - s0[2]>>
        w == <<p[1] - s0[1], p[2] - s0[2]>>
        c1 == Dot(w, v)
        c2 == Dot(v, v)
        u == <<p[1] - s1[1], p[2] - s1[2]>>
    IN  IF c1 <= 0 THEN RInt(Dot(w, w))
        ELSE IF c2 <= c1 THEN RInt(Dot(u, u))
        ELSE RNorm(Dot(w, w) * c2 - c1 * c1, c2)

\* lines 315-328: imin, the first of the segments (xy[i], xy[i+1]) nearest to
\* the point, 0-based
NearestSegment(xy, p) ==
    LET d(i) == dist_point_to_segment(p, xy[i + 1], xy[i + 2])
        is == 0..(Len(xy) - 2)
    IN  CHOOSE i \in is :
           /\ \A j \in is : RGe(d(j), d(i))
           /\ \A j \in is : j < i => ~RGe(d(i), d(j))

\* lines 330-332: poly.xy[:i+1] + [p] + poly.xy[i+1:]
Inserted(xy, i, p) ==
    SubSeq(xy, 1, i + 1) \o <<p>> \o SubSeq(xy, i + 2, Len(xy))

\* the press is one that gets past the three early returns of lines 290-295
PressTaken(st, event) == event.inaxes /\ event.button = 1 /\ st.isactive

\* lines 290-338: button_press_callback; poly.xy = ... goes through set_xy
button_press_callback(st, event) ==
    IF ~event.inaxes THEN [st EXCEPT !.last = Outcome("press", "None", 291)]
    ELSE IF event.button # 1 THEN [st EXCEPT !.last = Outcome("press", "None", 293)]
    ELSE IF ~st.isactive THEN [st EXCEPT !.last = Outcome("press", "None", 295)]
    ELSE LET ind == get_ind_under_point(st.xy, event)
         IN  IF ind # -1
             THEN [st EXCEPT !.ind = ind, !.last = Outcome("press", "None", 299)]
             ELSE IF Len(st.xy) = 1
             THEN [st EXCEPT !.ind = -1, !.xy = SetXY(<<event.p, event.p>>),
                             !.last = Outcome("press", "None", 314)]
             ELSE [st EXCEPT !.ind = -1,
                             !.xy = SetXY(Inserted(st.xy,
                                                   NearestSegment(st.xy, event.p),
                                                   event.p)),
                             !.last = Outcome("press", "None", 338)]

\* lines 388-405: motion_notify_callback; the vertices are written in
\* place, an index past the end raises IndexError
motion_notify_callback(st, event) ==
    IF st.ind = -1 THEN [st EXCEPT !.last = Outcome("motion", "None", 389)]
    ELSE IF ~event.inaxes THEN [st EXCEPT !.last = Outcome("motion", "None", 391)]
    ELSE IF event.button # 1 THEN [st EXCEPT !.last = Outcome("motion", "None", 393)]
    ELSE IF st.ind >= Len(st.xy)
    THEN [st EXCEPT !.last = Outcome("motion", "IndexError", 396)]
    ELSE LET moved == [st.xy EXCEPT ![st.ind + 1] = event.p]
         IN  [st EXCEPT !.xy = IF st.ind = 0
                               THEN [moved EXCEPT ![Len(moved)] = event.p]
                               ELSE moved,
                        !.last = Outcome("motion", "None", 405)]

\* lines 370-372: update_plots emits polyi_changed for 4 vertices or more
update_plots(st) == [st EXCEPT !.emitted = Len(st.xy) >= 4]

\* lines 354-359: button_release_callback
button_release_callback(st, event) ==
    IF event.button # 1 THEN [st EXCEPT !.last = Outcome("release", "None", 355)]
    ELSE IF ~st.isactive THEN [st EXCEPT !.last = Outcome("release", "None", 357)]
    ELSE [update_plots([st EXCEPT !.ind = -1]) EXCEPT
            !.last = Outcome("release", "None", 359)]

\* lines 220-226: new_poly(npoly)
new_poly(st, npoly) == update_plots([st EXCEPT !.xy = SetXY(npoly)])

\* a button_press_event; a press that would add a vertex beyond MaxVerts is
\* left out
ButtonPress ==
    /\ polyi.pc = "run"
    /\ \E event \in MouseEvents :
          /\ (/\ PressTaken(polyi, event)
              /\ get_ind_under_point(polyi.xy, event) = -1) => Len(polyi.xy) < MaxVerts
          /\ polyi' = button_press_callback([polyi EXCEPT !.emitted = FALSE], event)
    /\ UNCHANGED <<vis, vert, tilt, dlg, sc>>

\* a motion_notify_event
MotionNotify ==
    /\ polyi.pc = "run"
    /\ \E event \in MouseEvents :
          polyi' = motion_notify_callback([polyi EXCEPT !.emitted = FALSE], event)
    /\ UNCHANGED <<vis, vert, tilt, dlg, sc>>

\* a button_release_event
ButtonRelease ==
    /\ polyi.pc = "run"
    /\ \E event \in MouseEvents :
          polyi' = button_release_callback([polyi EXCEPT !.emitted = FALSE], event)
    /\ UNCHANGED <<vis, vert, tilt, dlg, sc>>

\* on_apoly, lines 690 and 700: new_poly([[1, 1]]), then isactive = True
PolyOnApoly ==
    /\ polyi.pc = "run"
    /\ polyi' = [new_poly(polyi, << <<1, 1>> >>) EXCEPT
                   !.isactive = TRUE, !.last = Outcome("on_apoly", "None", 700)]
    /\ UNCHANGED <<vis, vert, tilt, dlg, sc>>

\* onrowchange, lines 649-650: new_poly(coords) of the row selected
PolyOnRowChange ==
    /\ polyi.pc = "run"
    /\ \E ring \in Rings :
          polyi' = [new_poly(polyi, ring) EXCEPT
                      !.last = Outcome("onrowchange", "None", 650)]
    /\ UNCHANGED <<vis, vert, tilt, dlg, sc>>

\* on_dpoly of the last row of the table, lines 715-717: new_poly(), then
\* isactive = False
PolyOnDpoly ==
    /\ polyi.pc = "run"
    /\ polyi' = [new_poly(polyi, << <<1, 1>> >>) EXCEPT
                   !.isactive = FALSE, !.last = Outcome("on_dpoly", "None", 717)]
    /\ UNCHANGED <<vis, vert, tilt, dlg, sc>>

NextPoly ==
    \/ ButtonPress
    \/ MotionNotify
    \/ ButtonRelease
    \/ PolyOnApoly
    \/ PolyOnRowChange
    \/ PolyOnDpoly

SpecPoly == InitPoly /\ [][NextPoly]_vars

(***************************************************************************)
(* The polygon editor inside the SuperClass dialog: the same callbacks on  *)
(* map.polyi, whose signal polyi_changed is connected to updatepoly (line  *)
(* 809).                                                                   *)
(***************************************************************************)
\* the mouse events the dialog is given: button 1 over the axes at one of
\* three pixel centres, and one event each that the callbacks turn away
\* (another button, outside the axes)
ScMouseEvents ==
    {e \in MouseEvents :
        /\ e.p # <<1, 1>>
        /\ (e.button # 1 \/ ~e.inaxes) => e.p = <<0, 0>>
        /\ ~e.inaxes => e.button = 1}

\* map.polyi of the dialog in state st, as the callbacks see it
Editor(st) ==
    [pc |-> "run", xy |-> st.poly, ind |-> st.ind, isactive |-> st.isactive,
     emitted |-> FALSE, last |-> Outcome("-", "None", 0)]

\* the dialog after a callback left the editor as e: polyi_changed, when it
\* was emitted, has run updatepoly. A callback that returned without
\* changing anything leaves no trace; one that changed something is recorded
\* in `ops` and `last`, one that raised in `last`
Edited(st, e, op) ==
    LET st1 == [st EXCEPT !.poly = e.xy, !.ind = e.ind]
        st2 == IF e.emitted THEN UpdatePoly(st1) ELSE st1
    IN  IF e.last.result # "None"
        THEN [st2 EXCEPT !.last = Outcome(op, e.last.result, e.last.line)]
        ELSE IF st2 = st THEN st
        ELSE [st2 EXCEPT !.ops = Recorded(@ \cup {"mouse"}), !.last = Outcome(op, "None", 0)]

\* a button_press_event on the map of the dialog; the user presses button 1
\* in the active editor at most MaxPresses times, and a press that would add
\* a vertex beyond MaxScVerts is left out
ScButtonPress ==
    /\ sc.pc = "exec"
    /\ \E event \in ScMouseEvents :
          /\ PressTaken(Editor(sc), event) => sc.presses < MaxPresses
          /\ (/\ PressTaken(Editor(sc), event)
              /\ get_ind_under_point(sc.poly, event) = -1) => Len(sc.poly) < MaxScVerts
          /\ sc' = [Edited(sc, button_press_callback(Editor(sc), event),
                           "button_press_callback") EXCEPT
                      !.presses = IF PressTaken(Editor(sc), event) THEN @ + 1 ELSE @]
    /\ UNCHANGED <<vis, vert, tilt, dlg, polyi>>

\* the motion is one that gets past the three early returns of lines 388-393
\* and moves the held vertex (line 396 does not raise)
MotionTaken(st, event) ==
    st.ind # -1 /\ event.inaxes /\ event.button = 1 /\ st.ind < Len(st.xy)

\* a motion_notify_event on the map of the dialog; the user moves a held
\* vertex at most MaxDrags times, while the table has at most MaxDragRows rows
ScMotionNotify ==
    /\ sc.pc = "exec"
    /\ \E event \in ScMouseEvents :
          /\ MotionTaken(Editor(sc), event) =>
                (sc.drags < MaxDrags /\ Len(sc.table) <= MaxDragRows)
          /\ sc' = [Edited(sc, motion_notify_callback(Editor(sc), event),
                           "motion_notify_callback") EXCEPT
                      !.drags = IF MotionTaken(Editor(sc), event) THEN @ + 1 ELSE @]
    /\ UNCHANGED <<vis, vert, tilt, dlg, polyi>>

\* a button_release_event on the map of the dialog
ScButtonRelease ==
    /\ sc.pc = "exec"
    /\ \E event \in ScMouseEvents :
          sc' = Edited(sc, button_release_callback(Editor(sc), event),
                       "button_release_callback")
    /\ UNCHANGED <<vis, vert, tilt, dlg, polyi>>

NextSc ==
    \/ SettingsEnter
    \/ OnApoly
    \/ OnDpoly
    \/ SelectRow
    \/ ScButtonPress
    \/ ScMotionNotify
    \/ ScButtonRelease
    \/ LoadShape
    \/ SaveShape
    \/ ClassChange
    \/ CalcMetrics
    \/ Reject
    \/ Accept

SpecSc == InitSc /\ [][NextSc]_vars


(***************************************************************************)
(* Properties of visibility2d.                                             *)
(***************************************************************************)
\* the input cell an output cell comes from when the border of width w is cut
Shifted(c, w) == <<c[1] + w, c[2] + w>>

\* C1: for an odd window size >= 3 with half-width w and a grid of R > 2w
\* rows and C > 2w columns, each of the three returned grids has exactly
\* R-2w rows and C-2w columns, and its cell (i, j) is the cell (i+w, j+w) of
\* the untrimmed result: the border is dropped, not padded.
C1_OutputShape ==
    (Returned /\ ValidCall) =>
        LET w == inp.wsize \div 2
            R == inp.data.nr
            C == inp.data.nc
        IN  /\ \A k \in 1..3 :
                /\ ret[k].nr = R - 2 * w
                /\ ret[k].nc = C - 2 * w
                /\ DOMAIN ret[k].a = Cells(R - 2 * w, C - 2 * w)
            /\ \A c \in Cells(R - 2 * w, C - 2 * w) :
                /\ ret[1].a[c] = SeqSum(Counts8(Shifted(c, w)))
                /\ ret[2].a[c] = loc.vstd.a[Shifted(c, w)]
                /\ ret[3].a[c] = VSum(Shifted(c, w))

\* C1 witness: a returned call on a non-square grid with window size 5
C1_Witness ==
    /\ Returned /\ ValidCall
    /\ inp.wsize = 5 /\ inp.data.nr = 7 /\ inp.data.nc = 6
    /\ ret[1].nr = 3 /\ ret[1].nc = 2 /\ ret[3].nc = 2

\* C2 (as claimed): after the call every cell value of the caller's array,
\* masked cells included, is what it was before the call.
C2_CallerArrayUntouched == Returned => buf = inp.data.a

\* C3: each output mask is the input mask restricted to rows w..R-w-1 and
\* columns w..C-w-1; the three output masks are identical.
C3_OutputMask ==
    (Returned /\ ValidCall) =>
        LET w == inp.wsize \div 2
            trimmed == [c \in Cells(inp.data.nr - 2 * w, inp.data.nc - 2 * w) |->
                          inp.data.mask[Shifted(c, w)]]
        IN  \A k \in 1..3 : ret[k].mask = trimmed

\* C3 witness: a returned grid with a masked and an unmasked cell
C3_Witness ==
    /\ Returned /\ ValidCall
    /\ \E c, e \in DOMAIN ret[2].mask : ret[2].mask[c] /\ ~ret[2].mask[e]

\* the grid is constant and the observer is at height 0
FlatCall == inp.kind = "flat" /\ inp.dh = 0

\* C5 (as claimed): on a constant grid with height offset 0 the eight
\* directional counts of every interior cell are equal and the standard
\* deviation output is 0 at every cell.
C5_FlatStdZero ==
    (Returned /\ ValidCall /\ FlatCall) =>
        /\ \A c \in Interior : \A k \in 1..8 : Counts8(c)[k] = Counts8(c)[1]
        /\ \A c \in DOMAIN ret[2].a : ret[2].a[c] = RInt(0)

\* the count a ray returns when none of the steps its loop visits is rejected
ForwardMax(wsize, cp) == IF cp < wsize - 1 THEN 2 + Len(PyRange(cp + 1, wsize)) ELSE 1

BackwardMax(cp) == IF cp > 2 THEN 1 + Len(PyRangeDown(cp - 3)) ELSE 0

\* C6: ties favour visibility: on a constant grid with height offset 0 every
\* ray of every interior cell returns the largest count the ray can return
\* for the window size, no step being rejected.
C6_TiesVisible ==
    (Returned /\ ValidCall /\ FlatCall) =>
        \A c \in Interior :
            /\ \A k \in {1, 3, 5, 7} : Counts8(c)[k] = ForwardMax(loc.wsize, loc.w2 + 1)
            /\ \A k \in {2, 4, 6, 8} : Counts8(c)[k] = BackwardMax(loc.w2 + 1)

\* C6 witness: a flat grid scanned with window size 5, where the loops of the
\* helpers run and every step ties
C6_Witness ==
    /\ Returned /\ ValidCall /\ FlatCall
    /\ inp.wsize = 5 /\ inp.data.nr = 6 /\ inp.data.nc = 5
    /\ Counts8(<<2, 2>>) = <<3, 2, 3, 2, 3, 2, 3, 2>>

\* C7 (as claimed): on the 7x7 grid value[i][j] = i with window size 3 and
\* height offset 0, every interior cell has north count 1 and south count 1.
C7_SlopeCounts ==
    (/\ Returned
     /\ inp.kind = "rows" /\ inp.mkind = "none"
     /\ inp.data.nr = 7 /\ inp.data.nc = 7
     /\ inp.wsize = 3 /\ inp.dh = 0) =>
        \A c \in Interior : loc.vn.a[c] = 1 /\ loc.vs.a[c] = 1

\* C9 (as claimed): when the window size is >= the number of rows or of
\* columns, the call fails and returns no grid.
C9_ShapeError ==
    (inp.wsize >= inp.data.nr \/ inp.wsize >= inp.data.nc) =>
        /\ ~Returned
        /\ ret = <<>>

\* C10 (as claimed): for a window size that is even or smaller than 3 the
\* call fails and computes no output.
C10_InvalidParameter ==
    (inp.wsize % 2 = 0 \/ inp.wsize < 3) =>
        /\ ~Returned
        /\ ret = <<>>

(***************************************************************************)
(* Properties of the ray helpers.                                          *)
(***************************************************************************)
\* theta(i) of the ray that leaves the centre c in direction dir (+1 forward,
\* -1 backward)
Theta(dat, c, dh, dir, i) == RDivInt(RSub(RSub(dat[c + dir * i], dat[c]), dh), i)

\* the naive re-scan: the steps whose angle is >= the angle of every earlier
\* step of the ray
NaiveCount(dat, w, dh, dir) ==
    Cardinality({i \in 1..w : \A k \in 1..(i - 1) :
                    RGe(Theta(dat, w, dh, dir, i), Theta(dat, w, dh, dir, k))})

\* C4 (as claimed): the count of each streaming helper equals the count of
\* the naive re-scan of its ray.
C4_StreamingEqualsNaive ==
    ray.pc = "done" =>
        /\ ray.num1 = NaiveCount(ray.dat, ray.w, ray.dh, 1)
        /\ ray.num2 = NaiveCount(ray.dat, ray.w, ray.dh, -1)

\* C8 (as claimed): the forward count on a window equals the backward count
\* on the reversed window.
C8_MirrorRays == ray.pc = "done" => ray.num1 = ray.rev2

\* Supporting facts about the helpers, for every window: the forward count is
\* the naive count plus one when the loop runs (w >= 2) and 1 otherwise; the
\* backward count is the naive count when the loop runs and 0 otherwise; and
\* no window makes a helper return more than ForwardMax / BackwardMax.
RayCountsLemma ==
    ray.pc = "done" =>
        /\ ray.num1 = IF ray.w >= 2 THEN NaiveCount(ray.dat, ray.w, ray.dh, 1) + 1 ELSE 1
        /\ ray.num2 = IF ray.w >= 2 THEN NaiveCount(ray.dat, ray.w, ray.dh, -1) ELSE 0
        /\ ray.num1 = ray.rev2 + 1
        /\ ray.num1 <= ForwardMax(2 * ray.w + 1, ray.w + 1)
        /\ ray.num2 <= BackwardMax(ray.w + 1)

(***************************************************************************)
(* Properties of visibility2d under a progress iterator that may raise.    *)
(***************************************************************************)
\* the call has started scanning (a piter call has been made)
Scanning == pc \in {"ns", "ew", "diag", "std", "raised", "done"}

\* C11: the three grids exist for the caller only once every one of the
\* four scans has consumed its whole range; a call whose progress iterator
\* raised has no return value: the grids are all three there or none is.
C11_AllOrNothing ==
    /\ ret = <<>> \/ Len(ret) = 3
    /\ pc = "raised" => ret = <<>>
    /\ ret # <<>> =>
           /\ pc = "done"
           /\ loc.yielded = <<PyRange(0, loc.nc),
                              PyRange(loc.w2, loc.nc - loc.w2),
                              PyRange(loc.w2, loc.nc - loc.w2),
                              PyRange(0, loc.nc)>>

\* C11 witness: the iterator raised in the last scan, after the first three
\* had finished and the last had done a column; nothing was returned
C11_Witness ==
    /\ pc = "raised" /\ ValidCall
    /\ Len(loc.yielded) = 4 /\ Len(loc.yielded[4]) = 1
    /\ loc.yielded[3] = PyRange(loc.w2, loc.nc - loc.w2)
    /\ ret = <<>>

\* C12: from the first scan on, every masked cell of the working array holds
\* the mean of the unmasked cells and every unmasked cell its own value, so
\* no cell a ray can read is a NaN placeholder, and no cell of the returned
\* grids is NaN.
C12_MaskedFilled ==
    Scanning =>
        /\ loc.mean = MaskedMean(inp.data)
        /\ ~IsNaN(loc.mean)
        /\ \A c \in DOMAIN buf :
               /\ buf[c] = IF inp.data.mask[c] THEN loc.mean ELSE inp.data.a[c]
               /\ ~IsNaN(buf[c])
        /\ Returned => \A c \in DOMAIN ret[2].a : ~IsNaN(ret[2].a[c])

\* C12 witness: a returned call on a grid whose row 1 is masked and stores
\* NaN, with a window that reaches that row from the rows around it
C12_Witness ==
    /\ Returned /\ ValidCall
    /\ inp.mkind = "row" /\ inp.kind = "rough" /\ inp.data.nr >= 4
    /\ IsNaN(inp.data.a[<<1, 0>>])
    /\ buf[<<1, 0>>] = loc.mean
    /\ DOMAIN ret[2].a # {}

(***************************************************************************)
(* Properties of vertical.                                                 *)
(***************************************************************************)
VertReturned == vert.pc = "done"

\* the call went past the computation of the pad amounts
VertPadsKnown == vert.pc \in {"pad", "filter", "crop", "done", "raised"}

\* the cells of the padded square where np.pad placed the input itself
Placement ==
    {p \in Cells(vert.npts, vert.npts) :
        /\ p[1] >= vert.rdiff /\ p[1] < vert.rdiff + vert.nr
        /\ p[2] >= vert.cdiff /\ p[2] < vert.cdiff + vert.nc}

\* the spectrum cell of the opposite frequency
Opposite(k, n) == <<(n - k[1]) % n, (n - k[2]) % n>>

\* C13: the crop is the region where the padding placed the input: the
\* output has the input's shape, output cell (r, c) is the filtered sample
\* taken where input cell (r, c) sits in the padded square, and with an
\* even side the filter multiplies every coefficient in place by a factor
\* that is the same for opposite frequencies, so it moves no sample. A call
\* without a size on a grid with max(nr, nc) >= 2 does return.
C13_CropIsPlacement ==
    /\ VertReturned =>
          /\ vert.dz.nr = vert.data.nr /\ vert.dz.nc = vert.data.nc
          /\ DOMAIN vert.dz.a = Cells(vert.data.nr, vert.data.nc)
          /\ {vert.dz.a[c].at : c \in DOMAIN vert.dz.a} = Placement
          /\ \A c \in DOMAIN vert.dz.a :
                /\ PadSource(vert.dz.a[c].at, vert.nr, vert.nc, vert.rdiff, vert.cdiff) = c
                /\ vert.data1[vert.dz.a[c].at] = vert.z[c]
          /\ vert.npts % 2 = 0 =>
                \A k \in DOMAIN vert.fz :
                    /\ vert.fz[k].bin = k
                    /\ vert.fz[k].freq2 = vert.fz[Opposite(k, vert.npts)].freq2
    /\ vert.pc = "raised" =>
          vert.sized \/ Max(vert.data.nr, vert.data.nc) < 2

\* C13 witness: a returned call on a 3x5 grid, padded to 8x8 with unequal
\* leading and trailing pads
C13_Witness ==
    /\ VertReturned /\ ~vert.sized
    /\ vert.data.nr = 3 /\ vert.data.nc = 5 /\ vert.kind = "rough"
    /\ vert.rdiff = 2 /\ vert.rdiff2 = 3
    /\ vert.dz.a[<<0, 0>>].at = <<2, 1>>

IsPowerOfTwo(n) == \E m \in 0..n : 2^m = n

\* C14: without a size the padded square has side npts, the smallest power
\* of two >= max(nr, nc); on each axis the leading pad is
\* floor((npts - n)/2), leading + n + trailing = npts, and the trailing pad
\* is the leading pad or one more.
C14_PadAmounts ==
    (VertPadsKnown /\ ~vert.sized) =>
        LET nmax == Max(vert.nr, vert.nc)
        IN  /\ IsPowerOfTwo(vert.npts)
            /\ vert.npts >= nmax
            /\ \A q \in 1..vert.npts : (IsPowerOfTwo(q) /\ q >= nmax) => q >= vert.npts
            /\ 2 * vert.rdiff <= vert.npts - vert.nr
            /\ vert.npts - vert.nr <= 2 * vert.rdiff + 1
            /\ 2 * vert.cdiff <= vert.npts - vert.nc
            /\ vert.npts - vert.nc <= 2 * vert.cdiff + 1
            /\ vert.rdiff + vert.nr + vert.rdiff2 = vert.npts
            /\ vert.cdiff + vert.nc + vert.cdiff2 = vert.npts
            /\ vert.rdiff2 - vert.rdiff \in {0, 1}
            /\ vert.cdiff2 - vert.cdiff \in {0, 1}
            /\ vert.pc \in {"filter", "crop", "done"} =>
                  DOMAIN vert.data1 = Cells(vert.npts, vert.npts)

\* C14 witness: a 4x3 grid padded to 4x4, nothing added to the rows, one
\* trailing column and no leading one
C14_Witness ==
    /\ vert.pc = "filter" /\ ~vert.sized
    /\ vert.nr = 4 /\ vert.nc = 3 /\ vert.npts = 4
    /\ vert.rdiff = 0 /\ vert.rdiff2 = 0
    /\ vert.cdiff = 0 /\ vert.cdiff2 = 1

(***************************************************************************)
(* Properties of tilt1.                                                    *)
(***************************************************************************)
TiltReturned == tilt.pc = "done"

\* C15: the five returned grids have one shape, that of the (possibly
\* smoothed) field: (R, C) when s = 0 and (R-s+1, C-s+1) when
\* 0 < s <= min(R, C).
C15_FiveShapes ==
    TiltReturned =>
        LET R == tilt.data.nr
            C == tilt.data.nc
        IN  /\ Len(tilt.ret) = 5
            /\ \A k \in 1..5 :
                  /\ tilt.ret[k].nr = tilt.field.nr
                  /\ tilt.ret[k].nc = tilt.field.nc
            /\ DOMAIN tilt.field.a = Cells(tilt.field.nr, tilt.field.nc)
            /\ tilt.s = 0 => tilt.field.nr = R /\ tilt.field.nc = C
            /\ (0 < tilt.s /\ tilt.s <= Min(R, C)) =>
                  tilt.field.nr = R - tilt.s + 1 /\ tilt.field.nc = C - tilt.s + 1

\* C15 witness: a 5x4 grid smoothed with s = 3 gives five 3x2 grids
C15_Witness ==
    /\ TiltReturned
    /\ tilt.data.nr = 5 /\ tilt.data.nc = 4 /\ tilt.s = 3
    /\ tilt.ret[3].nr = 3 /\ tilt.ret[3].nc = 2
    /\ tilt.ret[5].nr = 3 /\ tilt.ret[5].nc = 2

\* the call went past the second-order pass
TiltSecondDone == tilt.pc \in {"masks", "done"}

\* the call went past the first smoothing
TiltSmoothDone == tilt.pc \in {"first", "second", "masks", "done"}

\* C16: t2 comes from t1 re-smoothed with a square kernel of side
\* max(s, 3): side 3 for s in {0, 1, 2}, side s for s >= 3; the field of the
\* first-order pass is smoothed exactly when s > 0.
C16_SecondOrderKernel ==
    /\ TiltSecondDone =>
          /\ tilt.se.side = Max(tilt.s, 3)
          /\ tilt.se.of = "t1"
          /\ tilt.s \in {0, 1, 2} => tilt.se.side = 3
          /\ tilt.s >= 3 => tilt.se.side = tilt.s
    /\ TiltSmoothDone =>
          /\ tilt.smoothed <=> tilt.s > 0
          /\ tilt.s = 0 => tilt.field.a = tilt.arr

\* C16 witness: smoothing disabled, yet the second-order pass used a 3x3
\* kernel on a field that was not smoothed
C16_Witness ==
    /\ TiltReturned
    /\ tilt.s = 0 /\ ~tilt.smoothed
    /\ tilt.se.side = 3
    /\ tilt.field.nr = tilt.data.nr

(***************************************************************************)
(* Properties of the dialogs.                                              *)
(***************************************************************************)
DlgReturned == dlg.pc = "returned"

\* C17: when settings() of any of the three dialogs has returned, True or
\* False, every band of indata['Raster'] is the object it was, with the
\* values (those under the mask included) and the mask it had; the fills
\* of visibility2d and tilt1 went to the copy.
C17_IndataUntouched ==
    DlgReturned =>
        /\ dlg.indata = [k \in 1..Len(dlg.bands) |-> k]
        /\ \A k \in 1..Len(dlg.bands) :
              /\ dlg.heap[dlg.indata[k]].dataid = dlg.bands[k].dataid
              /\ dlg.heap[dlg.indata[k]].data = dlg.bands[k].data
        /\ dlg.result =>
              \A j \in 1..Len(dlg.outdata) :
                  \A k \in 1..Len(dlg.indata) : dlg.outdata[j] # dlg.indata[k]

\* C17 witness: Tilt1.settings returned True for a band with masked cells;
\* the engine overwrote them in the copy, which now differs from the input
C17_Witness ==
    /\ DlgReturned /\ dlg.result
    /\ dlg.dialog = "Tilt1"
    /\ \E c \in DOMAIN dlg.bands[1].data.mask : dlg.bands[1].data.mask[c]
    /\ dlg.heap[dlg.data[1]].data.a # dlg.bands[1].data.a

\* settings() of Gradients returned True in the Vertical Derivative mode
VgradDone ==
    DlgReturned /\ dlg.result /\ dlg.dialog = "Gradients" /\ dlg.mode = "vgrad"

\* C18: in the Vertical Derivative mode every value vertical returned was a
\* plain array, and every output band has the shape and exactly the mask of
\* the input band it comes from.
C18_MaskReapplied ==
    VgradDone =>
        /\ Len(dlg.outdata) = Len(dlg.bands)
        /\ Len(dlg.dz) = Len(dlg.bands)
        /\ \A k \in 1..Len(dlg.bands) :
              LET out == dlg.heap[dlg.outdata[k]].data
              IN  /\ ~dlg.dz[k].masked
                  /\ out.nr = dlg.bands[k].data.nr
                  /\ out.nc = dlg.bands[k].data.nc
                  /\ out.mask = dlg.bands[k].data.mask

\* C18 witness: two bands went through the vertical derivative, the first
\* with a masked row, and the output has a masked and an unmasked cell
C18_Witness ==
    /\ VgradDone
    /\ Len(dlg.bands) = 2
    /\ \E c, e \in DOMAIN dlg.heap[dlg.outdata[1]].data.mask :
          /\ dlg.heap[dlg.outdata[1]].data.mask[c]
          /\ ~dlg.heap[dlg.outdata[1]].data.mask[e]

(***************************************************************************)
(* Properties of SuperClass.                                               *)
(***************************************************************************)
\* C19 (as claimed): load_shape and save_shape return True when they
\* succeed and False otherwise, and a call that returns False leaves df and
\* the class table as they were.
C19_ShapeResults ==
    [][(LoadShape \/ SaveShape) =>
          /\ sc'.last.result \in {"True", "False"}
          /\ sc'.last.result = "False" =>
                /\ sc'.hasdf = sc.hasdf
                /\ sc'.df = sc.df
                /\ sc'.table = sc.table]_vars

\* the part of C19 that holds: a call of load_shape or save_shape that
\* returns False changes nothing but the record of the call
C19_FalseChangesNothing ==
    [][((LoadShape \/ SaveShape) /\ sc'.last.result = "False") =>
          sc' = [sc EXCEPT !.last = sc'.last]]_vars

\* C20 (as claimed): when the dialog is accepted and the polygons give
\* fewer than two classes, settings returns False with outdata unchanged
\* and does not raise; calc_metrics does not raise in that case either.
C20_FailureReturnsFalse ==
    InitClassifier(sc).result = "False" =>
        /\ (sc.last.op = "settings" /\ sc.last.line # 815) =>
              sc.pc = "returned" /\ sc.result = "False" /\ sc.outdata = {}
        /\ sc.last.op = "calc_metrics" => sc.last.result = "None"

\* the part of C20 that holds: whatever way settings ends without
\* returning True, outdata is left as it was
C20_OutdataOnlyOnSuccess ==
    sc.outdata # {} => sc.pc = "returned" /\ sc.result = "True"

\* C21 (as claimed): when indata has 'Raster', the dialog is accepted and at
\* least two classes have polygons, settings returns True with
\* outdata['Cluster'] and outdata['Raster'] set, every attribute it reads on
\* the fresh Data object being there.
C21_AcceptedReturnsTrue ==
    (/\ sc.raster
     /\ sc.last.op = "settings" /\ sc.last.line # 815
     /\ InitClassifier(sc).result = "tuple"
     /\ Cardinality(Labels(sc.df)) >= 2) =>
        /\ sc.pc = "returned"
        /\ sc.result = "True"
        /\ sc.outdata = {"Cluster", "Raster"}

(***************************************************************************)
(* Properties of vertical and tilt1, continued.                            *)
(***************************************************************************)
\* the spectrum has been weighted
VertFiltered == vert.pc \in {"crop", "done"}

\* C22: for a padded size npts >= 2 that is a power of two, the weight is 0
\* for exactly one cell of the shifted spectrum, (npts/2, npts/2), which is
\* the cell the shift puts the zero frequency in; every other cell has a
\* strictly positive weight.
C22_ZeroWeightAtZeroFrequency ==
    (VertFiltered /\ vert.npts >= 2 /\ IsPowerOfTwo(vert.npts)) =>
        LET centre == <<vert.npts \div 2, vert.npts \div 2>>
        IN  /\ \E k \in DOMAIN vert.fz : vert.fz[k].at = centre
            /\ \A k \in DOMAIN vert.fz :
                  /\ vert.fz[k].freq2 >= 0
                  /\ vert.fz[k].freq2 = 0 <=> vert.fz[k].at = centre
                  /\ vert.fz[k].at = centre <=> vert.fz[k].bin = <<0, 0>>

\* C22 witness: vertical returned for a 5 x 6 grid padded to 8 x 8, and the
\* weighted spectrum has a cell of weight 0 and a cell of positive weight
C22_Witness ==
    /\ VertReturned
    /\ ~vert.sized /\ vert.nr = 5 /\ vert.nc = 6 /\ vert.npts = 8
    /\ \E k, e \in DOMAIN vert.fz : vert.fz[k].freq2 = 0 /\ vert.fz[e].freq2 > 0

\* the input cells under the window of cell c of the smoothed field: the
\* s x s cells from c on, or the whole array when the kernel is the larger
\* operand
WindowCells(c, A, s) ==
    {e \in Cells(A.nr, A.nc) :
        /\ s <= A.nr => (e[1] >= c[1] /\ e[1] < c[1] + s)
        /\ s <= A.nc => (e[2] >= c[2] /\ e[2] < c[2] + s)}

\* C23: with s > 0 the smoothed field has the cells of the valid-mode
\* windows, and a cell of it is masked if and only if at least one input
\* cell under its window was masked; with s <= R, C a window has s*s cells.
C23_MaskDilated ==
    (TiltSmoothDone /\ tilt.s > 0) =>
        /\ tilt.smoothed
        /\ tilt.field.nr = ConvValidSide(tilt.data.nr, tilt.s)
        /\ tilt.field.nc = ConvValidSide(tilt.data.nc, tilt.s)
        /\ \A c \in Cells(tilt.field.nr, tilt.field.nc) :
              /\ (tilt.s <= tilt.data.nr /\ tilt.s <= tilt.data.nc) =>
                    Cardinality(WindowCells(c, tilt.data, tilt.s)) = tilt.s * tilt.s
              /\ tilt.field.mask[c] <=>
                    \E e \in WindowCells(c, tilt.data, tilt.s) : tilt.data.mask[e]

\* C23 witness: tilt1 returned for a 5 x 5 grid with scattered masked cells
\* and s = 2; a cell of the smoothed field is masked although its window
\* holds an unmasked cell, and another cell is not masked
C23_Witness ==
    /\ TiltReturned
    /\ tilt.s = 2 /\ tilt.mkind = "cells"
    /\ tilt.data.nr = 5 /\ tilt.data.nc = 5
    /\ \E c, d \in Cells(tilt.field.nr, tilt.field.nc) :
          /\ tilt.field.mask[c]
          /\ \E e \in WindowCells(c, tilt.data, tilt.s) : ~tilt.data.mask[e]
          /\ ~tilt.field.mask[d]

(***************************************************************************)
(* Properties of visibility2d, continued.                                  *)
(***************************************************************************)
\* the ranges of the four piter calls, in the order of lines 365, 371, 377
\* and 393
ScanRanges ==
    <<PyRange(0, loc.nc), PyRange(loc.w2, loc.nc - loc.w2),
      PyRange(loc.w2, loc.nc - loc.w2), PyRange(0, loc.nc)>>

\* the number of the scan that is running, or that ran last
ScanNo ==
    CASE pc = "ns" -> 1
      [] pc = "ew" -> 2
      [] pc = "diag" -> 3
      [] pc \in {"std", "done"} -> 4

\* C24: the scans run one after another, each on one piter call: all C
\* columns, the C-2w interior columns, the interior columns again, and all C
\* columns. While scan k runs there have been exactly k calls, the calls
\* before it have yielded their whole range in order, and the running one
\* has yielded a prefix of its range; a finished call has made 4 calls.
C24_ScansInTurn ==
    pc \in {"ns", "ew", "diag", "std", "done"} =>
        /\ Len(loc.yielded) = ScanNo
        /\ \A k \in 1..(ScanNo - 1) : loc.yielded[k] = ScanRanges[k]
        /\ loc.yielded[ScanNo] \o todo = ScanRanges[ScanNo]
        /\ pc = "done" => todo = <<>>
        /\ Len(ScanRanges[1]) = loc.nc /\ Len(ScanRanges[4]) = loc.nc
        /\ Len(ScanRanges[2]) = Max(0, loc.nc - 2 * loc.w2)
        /\ Len(ScanRanges[3]) = Max(0, loc.nc - 2 * loc.w2)

\* C24 witness: a call on a grid of 5 columns with w = 1 returned after the
\* four scans over columns 0..4, 1..3, 1..3 and 0..4
C24_Witness ==
    /\ Returned
    /\ ret # <<>>
    /\ loc.nc = 5 /\ loc.w2 = 1
    /\ loc.yielded = << <<0, 1, 2, 3, 4>>, <<1, 2, 3>>, <<1, 2, 3>>, <<0, 1, 2, 3, 4>> >>

\* C25: with window size 3 (w = 1) every forward count is 1 and every
\* backward count is 0 at every interior cell, whatever the grid and the
\* height offset, and every cell of the total visibility grid holds 4.
C25_WindowThreeGivesFour ==
    (Returned /\ ret # <<>> /\ inp.wsize = 3) =>
        /\ \A c \in Interior : Counts8(c) = <<1, 0, 1, 0, 1, 0, 1, 0>>
        /\ ret[1].nr = Max(0, inp.data.nr - 2)
        /\ ret[1].nc = Max(0, inp.data.nc - 2)
        /\ \A c \in DOMAIN ret[1].a : ret[1].a[c] = 4

\* C25 witness: a rough 5 x 6 grid with scattered masked cells, scanned with
\* window size 3 from height 1; the total visibility of an unmasked and of
\* a masked cell is 4
C25_Witness ==
    /\ Returned /\ ret # <<>>
    /\ inp.wsize = 3 /\ inp.dh = 1
    /\ inp.kind = "rough" /\ inp.mkind = "cells"
    /\ inp.data.nr = 5 /\ inp.data.nc = 6
    /\ \E c, e \in DOMAIN ret[1].a :
          /\ ret[1].mask[c] /\ ret[1].a[c] = 4
          /\ ~ret[1].mask[e] /\ ret[1].a[e] = 4

(***************************************************************************)
(* Properties of the class table of SuperClass.                            *)
(***************************************************************************)
\* the elements of a sequence are pairwise distinct
Distinct(xs) == \A j, k \in 1..Len(xs) : xs[j] = xs[k] => j = k

\* the classes of the rows of df, in row order
DfClasses == [k \in 1..Len(sc.df) |-> sc.df[k].class]

\* only rows were added, deleted (the row selected in the table) and
\* selected; Delete Polygon without a selected row raises and changes nothing
OnlyAddDelete == sc.ops \subseteq {"onrowchange"}

\* C26 (as claimed): after any sequence of Add Polygon and Delete Polygon
\* (of the row selected in the table), the class names of the table rows are
\* pairwise distinct and so are those of the rows of df, so that
\* init_classifier keeps the pixels of separately added rows apart.
C26_ClassNamesDistinct ==
    (sc.pc = "exec" /\ OnlyAddDelete) =>
        /\ Distinct(sc.table)
        /\ Distinct(DfClasses)

\* the part of C26 that holds: when no row is ever selected by hand, Delete
\* Polygon removes the last row and the names stay 'Class 1' .. 'Class n'
C26_DistinctWithoutSelection ==
    (sc.pc = "exec" /\ sc.ops = {}) =>
        /\ sc.table = [k \in 1..Len(sc.table) |-> ClassName(k)]
        /\ DfClasses = sc.table

\* only on_apoly, on_dpoly with a row selected and successful load_shape
\* have run
OnlyAddDeleteLoad == sc.ops \subseteq {"load_shape"}

\* C27 (as claimed): after any sequence of on_apoly, on_dpoly with a row
\* selected and successful load_shape, the table has as many rows as df, the
\* index of df is 0..n-1, and row k of the table describes row k of df: the
\* class name the table shows is the class of the df row.
C27_TableMatchesDf ==
    (sc.pc = "exec" /\ OnlyAddDeleteLoad) =>
        /\ Len(sc.table) = Len(sc.df)
        /\ \A k \in 1..Len(sc.df) : sc.df[k].label = k - 1
        /\ \A k \in 1..Len(sc.df) : sc.table[k] = sc.df[k].class

\* the part of C27 that holds, also with row selections, mouse events and
\* files that fail to load: the table and df have the same number of rows
\* and the index of df is 0..n-1
C27_CountsAndIndex ==
    sc.pc = "exec" =>
        /\ Len(sc.table) = Len(sc.df)
        /\ \A k \in 1..Len(sc.df) : sc.df[k].label = k - 1

\* rows were added, deleted and selected and the mouse was used; no file
\* was loaded
OnlyTableAndMouse == sc.ops \subseteq {"onrowchange", "mouse"}

\* the polygon the editor shows for a stored geometry: the geometry itself,
\* or the single point (1, 1) for the empty geometry
Shown(geometry) ==
    IF geometry = EmptyPolygon THEN << <<1, 1>> >> ELSE geometry

\* C28 (as claimed): after any sequence of add, delete, row selection and
\* mouse events, the editor shows the stored geometry of the selected row of
\* the table, the single-point placeholder when that geometry is empty.
\* While a polygon is being drawn the editor is ahead of what is stored, so
\* the property is stated where the claim must hold whatever the reading:
\* right after a slot that selects a row (Add Polygon, Delete Polygon, a
\* click on a row).
C28_EditorShowsSelected ==
    [][(/\ OnApoly \/ OnDpoly \/ SelectRow
        /\ sc'.ops \subseteq {"onrowchange", "mouse"}
        /\ sc'.cur # -1)
          => sc'.poly = Shown(Geometry(sc'.df, sc'.cur))]_vars

\* the part of C28 that holds: a slot that selects a row whose stored
\* geometry is not empty leaves the editor showing that geometry
C28_ShowsStoredRing ==
    [][(/\ OnApoly \/ OnDpoly \/ SelectRow
        /\ sc'.ops \subseteq {"onrowchange", "mouse"}
        /\ sc'.cur # sc.cur /\ sc'.cur # -1 /\ sc.cur # -1
        /\ Geometry(sc'.df, sc'.cur) # EmptyPolygon)
          => sc'.poly = Geometry(sc'.df, sc'.cur)]_vars

(***************************************************************************)
(* Properties of PolygonInteractor.                                        *)
(***************************************************************************)
\* a mouse callback has just run
MouseStep == ButtonPress \/ MotionNotify \/ ButtonRelease

\* C29 (as claimed): after any interleaving of button press, mouse motion,
\* button release and new_poly calls the first and the last entry of poly.xy
\* are the same point.
C29_PolygonClosed ==
    polyi.pc = "run" => polyi.xy[1] = polyi.xy[Len(polyi.xy)]

\* the part of C29 that holds: a press that inserts a vertex and a motion
\* that drags the vertex picked in the polygon as it is now (no new_poly
\* since the press) leave a closed polygon closed
C29_ClosedWithoutStaleIndex ==
    [][(/\ MouseStep
        /\ polyi.xy[1] = polyi.xy[Len(polyi.xy)]
        /\ (polyi.ind # -1 => /\ polyi.ind < Len(polyi.xy) - 1))
          => polyi'.xy[1] = polyi'.xy[Len(polyi'.xy)]]_vars

\* C30 (as claimed): while the interactor is inactive no mouse event changes
\* poly.xy or emits polyi_changed, and no vertex is selected.
C30_InactiveIsInert ==
    [][/\ (MouseStep /\ ~polyi.isactive) =>
              (polyi'.xy = polyi.xy /\ ~polyi'.emitted)
       /\ (polyi'.pc = "run" /\ ~polyi'.isactive) => polyi'.ind = -1]_vars

\* the part of C30 that holds: a press or a release delivered to an inactive
\* interactor changes nothing but the record of the call
C30_PressReleaseInert ==
    [][((ButtonPress \/ ButtonRelease) /\ ~polyi.isactive) =>
          (polyi'.xy = polyi.xy /\ polyi'.ind = polyi.ind /\ ~polyi'.emitted)]_vars

====
